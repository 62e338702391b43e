------------------------- MODULE PackageReleasesProofs -------------------------
(***************************************************************************)
(* More about PackageLifecycle, for every set of Packages, bundles and     *)
(* configurations and every bound: who gets releases and entries in        *)
(* ns-secret-map, and what becomes of them when a Package is deleted.      *)
(***************************************************************************)
EXTENDS PackageLifecycleProofs

UninstallPcs == {"uninstall", "unlist"}

\* Somebody is going to look after the release of n: its Package is still in the cache, a
\* request for it is queued or delayed, or it is just being uninstalled.
Pending(n) == cache[n] # None \/ n \in queue \/ n \in timers
Cared(n) == Pending(n) \/ (w # None /\ w.n = n /\ w.pc = "uninstall")

\* Until the first crash every release is cared for, and so will be the one that is being
\* installed.
CareInv ==
    crashes = 0 =>
        /\ up
        /\ \A n \in Names : rel[RelOf[n]] # None => Cared(n)
        /\ w # None /\ w.pc \notin UninstallPcs => Pending(w.n)

\* Until the first failure every release of a cluster's own packages is listed, and so is
\* the namespace of the one that helm is creating.
ReleasesListed ==
    faults = 0 /\ crashes = 0 =>
        /\ \A n \in Names : NsOf[n] = "cluster" /\ rel[RelOf[n]] # None =>
               <<rel[RelOf[n]].ns, RelOf[n]>> \in nsmap
        /\ w # None /\ w.pc = "create" /\ NsOf[w.n] = "cluster" =>
               <<TargetNs, RelOf[w.n]>> \in nsmap
\* Between helm and the config map the release is as helm has left it.
BetweenCalls ==
    faults = 0 /\ crashes = 0 /\ w # None =>
        /\ w.pc # "undo"
        /\ w.pc = "upgraded" => rel[RelOf[w.n]] # None
        /\ w.pc = "unlist" => rel[RelOf[w.n]] = None

-----------------------------------------------------------------------------
(* Packages in the wrong namespace.                                        *)

\* A step that fails counts, and none is taken back.
LEMMA CountFacts == ASSUME Inv PROVE faults \in Nat /\ crashes \in Nat
  BY DEF Inv, TypeInv, TypeOK

\* An installation has a namespace to register, and works for a package namespace.
LEMMA InstallFacts ==
    ASSUME Inv, Installing
    PROVE  /\ w \in Workers /\ w # None /\ w.n \in Names /\ NsOf[w.n] # "invalid"
           /\ w.obj \in Objects /\ w.src \in Sources /\ TargetNs \in Namespaces
  <1>1. NsOf[w.n] # "invalid"
    BY DEF Installing, InstallPcs, Inv, Consistent, WorkerConsistent
  <1> QED
    BY <1>1, InstallTypes DEF Inv, Installing

\* Entries of ns-secret-map are made for the Package that is installed.
LEMMA EntriesMade ==
    ASSUME Inv, Next
    PROVE  \/ nsmap' \subseteq nsmap
           \/ /\ w \in Workers /\ NsOf[w.n] = "cluster"
              /\ \A e \in nsmap' : e \in nsmap \/ e[2] = RelOf[w.n]
  <1> DEFINE Added == /\ w \in Workers /\ NsOf[w.n] = "cluster"
                      /\ \A e \in nsmap' : e \in nsmap \/ e[2] = RelOf[w.n]
             Written == {nsmap, AddToConfigMap(w.n, TargetNs), DelFromConfigMap(w.n, TargetNs)}
  <1>1. ASSUME Installing, nsmap' \in Written
        PROVE  nsmap' \subseteq nsmap \/ Added
    BY <1>1, InstallFacts DEF AddToConfigMap, DelFromConfigMap
  <1>2. CASE User
    BY <1>2 DEF User, UserCreate, UserUpdate, UserDelete, UserWrite, ChangeBundle, helm
  <1>3. ASSUME NEW n \in Names, Deliver(n) \/ TimerFires(n) PROVE UNCHANGED nsmap
    BY <1>3 DEF Deliver, TimerFires, helm
  <1>4. ASSUME NEW n \in Names, Reconcile(n) PROVE UNCHANGED nsmap
    BY <1>4 DEF Reconcile, GetFails, BeginUninstall, RejectDeleted, SaveUnresolved,
           ProcessInvalidNamespace, ProcessInitializing, ProcessUpdating,
           DependenciesUnknown, DependenciesReady, DependenciesWaiting, SourceChanged,
           CheckFails, ConfigChanged, NothingToDo, BeginInstall, Save, helm
  <1>5. CASE BundleEvent \/ RunJob \/ Restart
    BY <1>5 DEF BundleEvent, RunJob, Restart, helm
  <1>6. CASE Crash
    <2>1. \/ UNCHANGED nsmap
          \/ (At("install") \/ At("upgraded")) /\ nsmap' = AddToConfigMap(w.n, TargetNs)
      BY <1>6 DEF Crash
    <2> QED
      BY <1>1, <2>1 DEF At, Installing, InstallPcs
  <1>7. ASSUME NEW r \in ReleaseNames, Drift(r) PROVE UNCHANGED nsmap
    BY <1>7 DEF Drift
  <1>8. CASE InstallStep
    <2>1. nsmap' \in Written
      BY <1>8 DEF InstallStep, InstallFails, PrepareRelease, CreateRelease, ReturnCreated,
             CreateReleaseFails, ReturnUndone, UpgradeRelease, ReturnUpgraded,
             UpgradeReleaseFails, Register
    <2> QED
      BY <1>1, <1>8, <2>1, InstallStepProceeds
  <1>9. CASE UninstallStep \/ Commit \/ CommitFails
    BY <1>9 DEF UninstallStep, NothingToUninstall, Uninstall, Unlist, UninstallFails, Commit,
           CommitFails, helm, DelFromConfigMap
  <1> QED
    BY <1>2, <1>3, <1>4, <1>5, <1>6, <1>7, <1>8, <1>9, WorkerSteps DEF Next, Inv, TypeInv

LEMMA InertStep ==
    ASSUME DistinctReleases, Inv, WrongNamespaceInert, [Next]_vars
    PROVE  WrongNamespaceInert'
  <1> SUFFICES ASSUME NEW n \in Names
               PROVE  /\ NsOf[n] = "invalid" => rel'[RelOf[n]] = None
                      /\ NsOf[n] # "cluster" => \A ns \in Namespaces : <<ns, RelOf[n]>> \notin nsmap'
    BY DEF WrongNamespaceInert
  <1>1. /\ rel \in [ReleaseNames -> Releases \cup {None}] /\ RelOf[n] \in ReleaseNames
        /\ w \in Workers => w.n \in Names
    BY NamesAssumption DEF Inv, TypeInv, TypeOK, Workers
  <1>2. CASE UNCHANGED vars
    BY <1>2 DEF vars, WrongNamespaceInert
  <1>3. CASE Next
    <2>1. ASSUME NsOf[n] = "invalid" PROVE rel'[RelOf[n]] = None
      <3>1. rel[RelOf[n]] = None
        BY <2>1 DEF WrongNamespaceInert
      <3>2. CASE UNCHANGED <<rel, drifted>>
        BY <3>1, <3>2
      <3>3. ASSUME w \in Workers, w.pc \in InstallPcs \/ rel[RelOf[w.n]] # None, NEW q \in Releases, Put(q)
            PROVE  rel'[RelOf[n]] = None
        <4>1. RelOf[n] # RelOf[w.n]
          <5>1. w # None
            BY <3>3, NoneAssumption
          <5>2. w.pc \in InstallPcs => NsOf[w.n] # "invalid"
            BY <5>1 DEF Inv, Consistent, WorkerConsistent, InstallPcs
          <5> QED
            BY <1>1, <2>1, <3>1, <3>3, <5>2 DEF DistinctReleases
        <4> QED
          BY <1>1, <3>1, <3>3, <4>1 DEF Put
      <3>4. ASSUME Put(None) PROVE rel'[RelOf[n]] = None
        BY <1>1, <3>1, <3>4 DEF Put
      <3>5. ASSUME NEW r \in ReleaseNames, Drift(r) PROVE rel'[RelOf[n]] = None
        BY <1>1, <3>1, <3>5 DEF Drift
      <3> QED
        BY <1>3, <3>2, <3>3, <3>4, <3>5, ReleasesKept
    <2>2. ASSUME NsOf[n] # "cluster", NEW ns \in Namespaces PROVE <<ns, RelOf[n]>> \notin nsmap'
      <3>1. <<ns, RelOf[n]>> \notin nsmap
        BY <2>2 DEF WrongNamespaceInert
      <3>2. CASE nsmap' \subseteq nsmap
        BY <3>1, <3>2
      <3>3. CASE /\ w \in Workers /\ NsOf[w.n] = "cluster"
                 /\ \A e \in nsmap' : e \in nsmap \/ e[2] = RelOf[w.n]
        <4>1. RelOf[n] # RelOf[w.n]
          BY <1>1, <2>2, <3>3 DEF DistinctReleases
        <4> QED
          BY <3>1, <3>3, <4>1
      <3> QED
        BY <1>3, <3>2, <3>3, EntriesMade
    <2> QED
      BY <2>1, <2>2
  <1> QED
    BY <1>2, <1>3

\* Whatever is queued, cached or in progress, a Package outside the package namespaces gets
\* no release, and only Packages of a cluster's own namespace an entry in ns-secret-map
\* (manager.Process, ecrSecret.AddToConfigMap).
THEOREM WrongNamespaceStaysInert ==
    ASSUME DistinctReleases
    PROVE  Spec => []WrongNamespaceInert
  <1>1. ASSUME Init PROVE Inv /\ WrongNamespaceInert
    <2>1. ASSUME NEW n \in Names, NEW ns PROVE <<ns, RelOf[n]>> \notin PlaceholderEntries
      BY NamesAssumption, NoneAssumption DEF PlaceholderEntries
    <2>2. nsmap = PlaceholderEntries /\ \A n \in Names : rel[RelOf[n]] = None
      BY <1>1, NamesAssumption DEF Init
    <2> QED
      BY <1>1, <2>1, <2>2, ConsistentInductive DEF WrongNamespaceInert
  <1>2. Inv /\ WrongNamespaceInert /\ [Next]_vars => Inv' /\ WrongNamespaceInert'
    BY ConsistentInductive, InertStep
  <1> QED
    BY <1>1, <1>2, PTL DEF Spec

-----------------------------------------------------------------------------
(* Deleted Packages.                                                       *)

\* Requests are not forgotten: a request that is taken is worked on, and a cached Package
\* is only forgotten by an event that enqueues it.
LEMMA PendingKept ==
    ASSUME Inv, Next, up, crashes' = 0, NEW n \in Names, Pending(n)
    PROVE  \/ Pending(n)'
           \/ w = None /\ w' # None /\ w'.n = n /\ w'.pc = "uninstall"
  <1>1. CASE User \/ BundleEvent \/ RunJob \/ \E r \in ReleaseNames : Drift(r)
    BY <1>1 DEF User, UserCreate, UserUpdate, UserDelete, UserWrite, ChangeBundle, BundleEvent, RunJob,
           Drift, Pending
  <1>2. ASSUME NEW m \in Names, Deliver(m) PROVE Pending(n)'
    BY <1>2 DEF Deliver, Pending, Inv, TypeInv, TypeOK
  <1>3. ASSUME NEW m \in Names, TimerFires(m) PROVE Pending(n)'
    BY <1>3 DEF TimerFires, Pending
  <1>4. ASSUME NEW m \in Names, Reconcile(m)
        PROVE  Pending(n)' \/ (w = None /\ w' # None /\ w'.n = n /\ w'.pc = "uninstall")
    <2>1. w = None /\ queue' = queue \ {m} /\ UNCHANGED cache
      BY <1>4 DEF Reconcile, GetFails, BeginUninstall, RejectDeleted, SaveUnresolved,
             ProcessInvalidNamespace, ProcessInitializing, ProcessUpdating,
             DependenciesUnknown, DependenciesReady, DependenciesWaiting, SourceChanged,
             CheckFails, ConfigChanged, NothingToDo, BeginInstall, Save, Take
    <2>2. timers \subseteq timers'
      BY <1>4 DEF Reconcile, GetFails, BeginUninstall, RejectDeleted, SaveUnresolved,
             ProcessInvalidNamespace, ProcessInitializing, ProcessUpdating,
             DependenciesUnknown, DependenciesReady, DependenciesWaiting, SourceChanged,
             CheckFails, ConfigChanged, NothingToDo, BeginInstall, Save
    <2>3. CASE cache[n] # None \/ m # n
      BY <2>1, <2>2, <2>3 DEF Pending
    <2>4. CASE cache[n] = None /\ m = n
      <3>1. GetFails(n) \/ BeginUninstall(n) \/ RejectDeleted(n)
        BY <1>4, <2>4 DEF Reconcile, SaveUnresolved, ProcessInvalidNamespace, ProcessInitializing,
               ProcessUpdating, DependenciesUnknown, DependenciesReady, DependenciesWaiting,
               SourceChanged, CheckFails, ConfigChanged, NothingToDo, BeginInstall, InState, Checkable
      <3>2. CASE GetFails(n) \/ RejectDeleted(n)
        BY <3>2 DEF GetFails, RejectDeleted, Pending
      <3>3. CASE BeginUninstall(n)
        <4>1. w'.n = n /\ w'.pc = "uninstall"
          BY <3>3 DEF BeginUninstall, Hold
        <4>2. w' \in Workers
          BY <3>3, HoldType DEF BeginUninstall, Pcs
        <4> QED
          BY <2>1, <4>1, <4>2, NoneAssumption
      <3> QED
        BY <3>1, <3>2, <3>3
    <2> QED
      BY <2>3, <2>4
  <1>5. CASE WorkerStep
    <2>1. UNCHANGED <<cache, queue>> /\ timers \subseteq timers'
      BY <1>5 DEF WorkerStep, InstallFails, PrepareRelease, CreateRelease, ReturnCreated,
             CreateReleaseFails, ReturnUndone, UpgradeRelease, ReturnUpgraded,
             UpgradeReleaseFails, NothingToUninstall, Uninstall, Unlist, UninstallFails,
             Commit, CommitFails, Return, Goto, Finish
    <2> QED
      BY <2>1 DEF Pending
  <1>6. ~Crash
    <2>1. Crash => crashes' = crashes + 1
      BY DEF Crash
    <2> QED
      BY <2>1, CountFacts
  <1>7. ~Restart
    BY DEF Restart
  <1> QED
    BY <1>1, <1>2, <1>3, <1>4, <1>5, <1>6, <1>7 DEF Next

\* A reconciliation stays with its Package, and begins to work on a cached one or to
\* uninstall.
LEMMA WorkerKept ==
    ASSUME Inv, Next, w' # None, w'.pc \notin UninstallPcs
    PROVE  \/ w # None /\ w'.n = w.n /\ w.pc \notin UninstallPcs
           \/ w = None /\ w'.n \in Names /\ cache[w'.n] # None /\ UNCHANGED cache
  <1>1. w # None => w \in Workers
    BY DEF Inv, TypeInv, TypeOK
  <1>2. CASE UNCHANGED w
    BY <1>2 DEF Inv, TypeInv, TypeOK, Workers
  <1>3. CASE \E n \in Names : Outdate(n)
    BY <1>1, <1>3 DEF Outdate, Workers
  <1>4. ASSUME NEW n \in Names, Reconcile(n), ~UNCHANGED w
        PROVE  w = None /\ w'.n = n /\ cache[n] # None /\ UNCHANGED cache
    <2>1. ASSUME NEW pc, NEW o, NEW src, NEW again, Hold(pc, n, o, src, again)
          PROVE  w'.pc = pc /\ w'.n = n
      BY <2>1 DEF Hold
    <2>2. ASSUME NEW o, NEW again, Save(n, o, again) PROVE w'.n = n /\ UNCHANGED cache
      BY <2>1, <2>2 DEF Save
    <2>3. ~GetFails(n) /\ ~RejectDeleted(n) /\ ~NothingToDo(n)
      BY <1>4 DEF GetFails, RejectDeleted, NothingToDo
    <2>4. ~BeginUninstall(n)
      BY <2>1 DEF BeginUninstall, UninstallPcs
    <2>5. w = None /\ cache[n] # None
      BY <1>4, <2>3, <2>4 DEF Reconcile, SaveUnresolved, ProcessInvalidNamespace, ProcessInitializing,
             ProcessUpdating, DependenciesUnknown, DependenciesReady, DependenciesWaiting,
             SourceChanged, CheckFails, ConfigChanged, BeginInstall, InState, Checkable, Take
    <2>6. CASE BeginInstall(n) \/ DependenciesWaiting(n)
      BY <2>1, <2>5, <2>6 DEF BeginInstall, DependenciesWaiting
    <2>7. CASE \/ SaveUnresolved(n) \/ ProcessInvalidNamespace(n) \/ ProcessInitializing(n)
               \/ ProcessUpdating(n) \/ DependenciesUnknown(n) \/ DependenciesReady(n)
               \/ SourceChanged(n) \/ CheckFails(n) \/ ConfigChanged(n)
      BY <1>4, <2>2, <2>5, <2>7 DEF SaveUnresolved, ProcessInvalidNamespace, ProcessInitializing,
             ProcessUpdating, DependenciesUnknown, DependenciesReady, SourceChanged, CheckFails,
             ConfigChanged
    <2> QED
      BY <1>4, <2>3, <2>4, <2>6, <2>7 DEF Reconcile
  <1>5. CASE WorkerStep
    <2>1. ~Commit /\ ~CommitFails /\ ~NothingToUninstall /\ ~Unlist /\ ~UninstallFails
      BY DEF Commit, CommitFails, NothingToUninstall, Unlist, UninstallFails, Finish
    <2>2. w \in Workers /\ w # None /\ (InstallStep \/ Uninstall)
      BY <1>5, <2>1, WorkerSteps DEF UninstallStep, Inv, TypeInv
    <2>3. ~Uninstall
      BY <2>2 DEF Uninstall, UninstallPcs, Workers
    <2>4. Installing /\ Proceeds
      BY <2>2, <2>3, InstallStepProceeds
    <2>5. w'.n = w.n
      BY <2>2, <2>4 DEF Proceeds, Goto, Return, Workers
    <2> QED
      BY <2>2, <2>4, <2>5 DEF Installing, InstallPcs, UninstallPcs
  <1>6. User => UNCHANGED w \/ \E n \in Names : Outdate(n)
    BY DEF User, UserCreate, UserUpdate, UserDelete, UserWrite, ChangeBundle
  <1>7. ASSUME NEW n \in Names, Deliver(n) \/ TimerFires(n) PROVE UNCHANGED w
    BY <1>7 DEF Deliver, TimerFires
  <1>8. BundleEvent \/ RunJob \/ Restart \/ (\E r \in ReleaseNames : Drift(r)) => UNCHANGED w
    BY DEF BundleEvent, RunJob, Restart, Drift
  <1>9. ~Crash
    BY DEF Crash
  <1> QED
    BY <1>2, <1>3, <1>4, <1>5, <1>6, <1>7, <1>8, <1>9 DEF Next

\* An uninstallation ends without a release or with another request.
LEMMA UninstallKept ==
    ASSUME Inv, Next, crashes' = 0, w # None, w.pc = "uninstall"
    PROVE  \/ w' # None /\ w'.n = w.n /\ w'.pc = "uninstall"
           \/ w.n \in timers'
           \/ rel'[RelOf[w.n]] = None
  <1>1. w \in Workers /\ RelOf[w.n] \in ReleaseNames
    BY NamesAssumption DEF Inv, TypeInv, TypeOK, Workers
  <1>2. CASE UNCHANGED w
    BY <1>2
  <1>3. ASSUME NEW n \in Names, Outdate(n) PROVE w' # None /\ w'.n = w.n /\ w'.pc = "uninstall"
    <2>1. CASE w.n = n
      <3>1. w' = [w EXCEPT !.fresh = FALSE]
        BY <1>3, <2>1 DEF Outdate
      <3>2. w' \in Workers /\ w'.n = w.n /\ w'.pc = w.pc
        BY <1>1, <3>1 DEF Workers
      <3> QED
        BY <3>2, NoneAssumption
    <2>2. CASE w.n # n
      BY <1>3, <2>2 DEF Outdate
    <2> QED
      BY <2>1, <2>2
  <1>4. ASSUME NEW n \in Names, Reconcile(n) PROVE FALSE
    BY <1>4 DEF Reconcile, GetFails, BeginUninstall, RejectDeleted, SaveUnresolved,
           ProcessInvalidNamespace, ProcessInitializing, ProcessUpdating, DependenciesUnknown,
           DependenciesReady, DependenciesWaiting, SourceChanged, CheckFails, ConfigChanged,
           NothingToDo, BeginInstall, Take
  <1>5. WorkerStep => NothingToUninstall \/ Uninstall \/ UninstallFails
    BY DEF WorkerStep, InstallFails, PrepareRelease, CreateRelease, ReturnCreated,
           CreateReleaseFails, ReturnUndone, UpgradeRelease, ReturnUpgraded,
           UpgradeReleaseFails, Unlist, Commit, CommitFails, At
  <1>6. CASE NothingToUninstall \/ Uninstall
    BY <1>1, <1>6 DEF NothingToUninstall, Uninstall, Put, helm, Inv, TypeInv, TypeOK
  <1>7. CASE UninstallFails
    BY <1>7 DEF UninstallFails, Finish
  <1>8. User => UNCHANGED w \/ \E n \in Names : Outdate(n)
    BY DEF User, UserCreate, UserUpdate, UserDelete, UserWrite, ChangeBundle
  <1>9. ASSUME NEW n \in Names, Deliver(n) \/ TimerFires(n) PROVE UNCHANGED w
    BY <1>9 DEF Deliver, TimerFires
  <1>10. BundleEvent \/ RunJob \/ Restart \/ (\E r \in ReleaseNames : Drift(r)) => UNCHANGED w
    BY DEF BundleEvent, RunJob, Restart, Drift
  <1>11. ~Crash
    <2>1. Crash => crashes' = crashes + 1
      BY DEF Crash
    <2> QED
      BY <2>1, CountFacts
  <1> QED
    BY <1>2, <1>3, <1>4, <1>5, <1>6, <1>7, <1>8, <1>9, <1>10, <1>11 DEF Next

\* Without a crash the controller stays up.
LEMMA StaysUp ==
    ASSUME Inv, Next, crashes' = 0, CareInv
    PROVE  crashes = 0 /\ up /\ up'
  <1>1. crashes' = crashes \/ (Crash /\ crashes' = crashes + 1)
    BY DEF Next, User, UserCreate, UserUpdate, UserDelete, UserWrite, ChangeBundle, Deliver,
           TimerFires, Reconcile, GetFails, BeginUninstall, RejectDeleted, SaveUnresolved,
           ProcessInvalidNamespace, ProcessInitializing, ProcessUpdating, DependenciesUnknown,
           DependenciesReady, DependenciesWaiting, SourceChanged, CheckFails, ConfigChanged,
           NothingToDo, BeginInstall, Save, BundleEvent, WorkerStep, InstallFails,
           PrepareRelease, CreateRelease, ReturnCreated, CreateReleaseFails, ReturnUndone,
           UpgradeRelease, ReturnUpgraded, UpgradeReleaseFails, NothingToUninstall, Uninstall,
           Unlist, UninstallFails, Commit, CommitFails, Return, Goto, RunJob, Crash, Restart,
           Drift
  <1>2. crashes = 0 /\ ~(Crash /\ crashes' = crashes + 1)
    BY <1>1, CountFacts
  <1>3. up
    BY <1>2 DEF CareInv
  <1>4. Crash => crashes' = crashes + 1
    BY DEF Crash
  <1>5. up' = up \/ Restart \/ Crash
    BY DEF Next, User, UserCreate, UserUpdate, UserDelete, UserWrite, ChangeBundle, Deliver,
           TimerFires, Reconcile, GetFails, BeginUninstall, RejectDeleted, SaveUnresolved,
           ProcessInvalidNamespace, ProcessInitializing, ProcessUpdating, DependenciesUnknown,
           DependenciesReady, DependenciesWaiting, SourceChanged, CheckFails, ConfigChanged,
           NothingToDo, BeginInstall, Save, BundleEvent, WorkerStep, InstallFails,
           PrepareRelease, CreateRelease, ReturnCreated, CreateReleaseFails, ReturnUndone,
           UpgradeRelease, ReturnUpgraded, UpgradeReleaseFails, NothingToUninstall, Uninstall,
           Unlist, UninstallFails, Commit, CommitFails, Return, Goto, RunJob, Drift
  <1>6. ~Restart
    BY <1>3 DEF Restart
  <1> QED
    BY <1>2, <1>3, <1>4, <1>5, <1>6

LEMMA CareStep ==
    ASSUME DistinctReleases, Inv, CareInv, Next
    PROVE  CareInv'
  <1> SUFFICES ASSUME crashes' = 0
               PROVE  /\ up'
                      /\ \A n \in Names : rel'[RelOf[n]] # None => Cared(n)'
                      /\ w' # None /\ w'.pc \notin UninstallPcs => Pending(w.n)'
    BY DEF CareInv, Cared, Pending
  <1>1. crashes = 0 /\ up /\ up'
    BY StaysUp
  <1>2. w # None /\ w.pc \notin UninstallPcs => Pending(w.n)
    BY <1>1 DEF CareInv
  <1>3. ASSUME NEW n \in Names, rel'[RelOf[n]] # None PROVE Cared(n)'
    <2>1. ASSUME Pending(n) PROVE Cared(n)'
      BY <1>1, <2>1, PendingKept DEF Cared
    <2>2. CASE rel[RelOf[n]] # None /\ ~Pending(n)
      <3>1. w # None /\ w.n = n /\ w.pc = "uninstall"
        BY <1>1, <2>2 DEF CareInv, Cared
      <3> QED
        BY <1>3, <3>1, UninstallKept DEF Cared, Pending
    <2>3. CASE rel[RelOf[n]] = None
      <3>1. /\ rel \in [ReleaseNames -> Releases \cup {None}] /\ RelOf[n] \in ReleaseNames
            /\ w \in Workers => w.n \in Names
        BY NamesAssumption DEF Inv, TypeInv, TypeOK, Workers
      <3>2. \A q : Put(q) /\ RelOf[w.n] # RelOf[n] => rel'[RelOf[n]] = rel[RelOf[n]]
        BY <3>1 DEF Put
      <3>3. Put(None) => rel'[RelOf[n]] = None
        BY <2>3, <3>1 DEF Put
      <3>4. (\E r \in ReleaseNames : Drift(r)) => rel'[RelOf[n]] = None
        BY <2>3, <3>1 DEF Drift
      <3>5. /\ w \in Workers /\ (w.pc \in InstallPcs \/ rel[RelOf[w.n]] # None)
            /\ RelOf[w.n] = RelOf[n]
        BY <1>3, <2>3, <3>2, <3>3, <3>4, ReleasesKept
      <3>6. w.n = n /\ w.pc \notin UninstallPcs /\ w # None
        BY <2>3, <3>1, <3>5, NoneAssumption DEF DistinctReleases, InstallPcs, UninstallPcs
      <3> QED
        BY <1>2, <2>1, <3>6
    <2> QED
      BY <2>1, <2>2, <2>3
  <1>4. ASSUME w' # None, w'.pc \notin UninstallPcs PROVE Pending(w.n)'
    <2>1. CASE w # None /\ w'.n = w.n /\ w.pc \notin UninstallPcs
      <3>1. w.n \in Names
        BY <2>1 DEF Inv, TypeInv, TypeOK, Workers
      <3> DEFINE n == w.n
      <3>2. n \in Names /\ Pending(n)
        BY <1>2, <2>1, <3>1
      <3>3. cache'[n] # None \/ n \in queue' \/ n \in timers'
        <4> HIDE DEF n
        <4> QED
          BY <1>1, <2>1, <3>2, PendingKept DEF Pending
      <3> QED
        BY <2>1, <3>3 DEF Pending
    <2>2. CASE w = None /\ w'.n \in Names /\ cache[w'.n] # None /\ UNCHANGED cache
      BY <2>2 DEF Pending
    <2> QED
      BY <1>4, <2>1, <2>2, WorkerKept
  <1> QED
    BY <1>1, <1>3, <1>4

\* As long as the controller has not crashed, a deleted Package it is done with has left no
\* release behind: the deletion is neither overtaken by an installation in progress nor
\* lost with a failed request, since nothing but an uninstallation ends the care for a
\* release (Reconcile, helmDriver.Uninstall).
THEOREM NothingOrphaned ==
    ASSUME DistinctReleases
    PROVE  Spec => [](crashes = 0 => NoOrphan)
  <1>1. Init => Inv /\ CareInv
    BY ConsistentInductive, NamesAssumption DEF Init, CareInv
  <1>2. Inv /\ CareInv /\ [Next]_vars => Inv' /\ CareInv'
    <2>1. UNCHANGED vars /\ CareInv => CareInv'
      BY DEF vars, CareInv, Cared, Pending
    <2> QED
      BY <2>1, ConsistentInductive, CareStep
  <1>3. Inv /\ CareInv => (crashes = 0 => NoOrphan)
    <2> SUFFICES ASSUME Inv, CareInv, crashes = 0, NEW n \in Names, Quiet(n), pkg[n] = None
                 PROVE  rel[RelOf[n]] = None
      BY DEF NoOrphan
    <2>1. cache[n] = None
      BY DEF Inv, Consistent, CacheFollows, Quiet
    <2>2. ~Cared(n)
      BY <2>1 DEF Cared, Pending, Quiet
    <2> QED
      BY <2>2 DEF CareInv
  <1> QED
    BY <1>1, <1>2, <1>3, PTL DEF Spec

-----------------------------------------------------------------------------
(* The entries of ns-secret-map, while nothing fails.                      *)

\* What happens to releases and entries as long as nothing has failed: a namespace is
\* entered before its release is created and after it is upgraded, and taken off the list
\* after the release is uninstalled.
Prepares ==
    /\ w.pc = "install" /\ rel[RelOf[w.n]] = None /\ w' = [w EXCEPT !.pc = "create"]
    /\ UNCHANGED rel /\ nsmap' = AddToConfigMap(w.n, TargetNs)
Registers ==
    /\ w.pc = "upgraded" /\ w' = [w EXCEPT !.pc = "commit", !.obj = Installed(w.obj)]
    /\ UNCHANGED rel /\ nsmap' = AddToConfigMap(w.n, TargetNs)
Creates ==
    /\ w.pc = "create" /\ w' = [w EXCEPT !.pc = "created"]
    /\ Put(Release("deployed", TargetNs)) /\ UNCHANGED nsmap
Upgrades ==
    /\ w.pc = "install" /\ rel[RelOf[w.n]] # None /\ w' = [w EXCEPT !.pc = "upgraded"]
    /\ Put(Release("deployed", rel[RelOf[w.n]].ns)) /\ UNCHANGED nsmap
Removes ==
    /\ w.pc = "uninstall" /\ rel[RelOf[w.n]] # None
    /\ w' = [w EXCEPT !.pc = "unlist", !.ns = rel[RelOf[w.n]].ns]
    /\ Put(None) /\ UNCHANGED nsmap
Unlists ==
    /\ w.pc = "unlist" /\ w' = None
    /\ UNCHANGED rel /\ nsmap' = DelFromConfigMap(w.n, w.ns)

\* The other steps do not come between two calls, nor take the worker from there.
BetweenPcs == {"create", "upgraded", "undo", "unlist"}
Elsewhere ==
    /\ UNCHANGED <<rel, nsmap>>
    /\ \/ /\ w # None /\ w' # None /\ w'.pc = w.pc /\ w'.n = w.n
          /\ w'.obj = w.obj /\ w'.src = w.src /\ w'.ns = w.ns
       \/ /\ w = None \/ w.pc \notin BetweenPcs
          /\ w' = None \/ w'.pc \notin BetweenPcs

LEMMA QuietStep ==
    ASSUME Inv, BetweenCalls, Next, faults' = 0, crashes' = 0
    PROVE  /\ faults = 0 /\ crashes = 0
           /\ \/ Elsewhere
              \/ w \in Workers /\ w # None /\ (Removes \/ Unlists)
              \/ Installing /\ (Prepares \/ Registers \/ Creates \/ Upgrades)
  <1>1. ~Fault
    BY CountFacts DEF Fault
  <1>2. Crash => crashes' = crashes + 1
    BY DEF Crash
  <1>3. ~Crash
    BY <1>2, CountFacts
  <1>u. UNCHANGED <<w, rel, nsmap>> => Elsewhere
    BY DEF Elsewhere
  <1>4. CASE User
    <2>1. UNCHANGED <<rel, nsmap, faults, crashes>> /\ (UNCHANGED w \/ \E n \in Names : Outdate(n))
      BY <1>4 DEF User, UserCreate, UserUpdate, UserDelete, UserWrite, ChangeBundle, helm
    <2>2. ASSUME NEW n \in Names, Outdate(n), ~UNCHANGED w PROVE Elsewhere
      <3>1. w \in Workers /\ w # None /\ w' = [w EXCEPT !.fresh = FALSE]
        BY <2>2 DEF Outdate, Inv, TypeInv, TypeOK
      <3>2. w' \in Workers /\ w'.pc = w.pc /\ w'.n = w.n /\ w'.obj = w.obj /\ w'.src = w.src /\ w'.ns = w.ns
        BY <3>1 DEF Workers
      <3> QED
        BY <2>1, <3>1, <3>2, NoneAssumption DEF Elsewhere
    <2> QED
      BY <1>u, <2>1, <2>2
  <1>5. ASSUME NEW n \in Names, Deliver(n) \/ TimerFires(n)
        PROVE  UNCHANGED <<w, rel, nsmap, faults, crashes>>
    BY <1>5 DEF Deliver, TimerFires, helm
  <1>6. ASSUME NEW n \in Names, Reconcile(n) PROVE UNCHANGED <<faults, crashes>> /\ Elsewhere
    <2>1. UNCHANGED <<rel, nsmap, faults, crashes>> /\ w = None
      BY <1>1, <1>6 DEF Reconcile, GetFails, BeginUninstall, RejectDeleted, SaveUnresolved,
             ProcessInvalidNamespace, ProcessInitializing, ProcessUpdating,
             DependenciesUnknown, DependenciesReady, DependenciesWaiting, SourceChanged,
             CheckFails, ConfigChanged, NothingToDo, BeginInstall, Save, Take, helm
    <2>2. ASSUME NEW pc, NEW o, NEW src, NEW again, Hold(pc, n, o, src, again)
          PROVE  w'.pc = pc
      BY <2>2 DEF Hold
    <2>3. ASSUME NEW o, NEW again, Save(n, o, again) PROVE w'.pc = "commit"
      BY <2>2, <2>3 DEF Save
    <2>4. UNCHANGED w \/ w'.pc \in {"commit", "install", "uninstall"}
      BY <1>6, <2>2, <2>3 DEF Reconcile, GetFails, BeginUninstall, RejectDeleted,
             SaveUnresolved, ProcessInvalidNamespace, ProcessInitializing, ProcessUpdating,
             DependenciesUnknown, DependenciesReady, DependenciesWaiting, SourceChanged,
             CheckFails, ConfigChanged, NothingToDo, BeginInstall
    <2> QED
      BY <2>1, <2>4 DEF Elsewhere, BetweenPcs
  <1>7. CASE BundleEvent \/ RunJob \/ Restart
    BY <1>u, <1>7 DEF BundleEvent, RunJob, Restart, helm
  <1>8. ~(\E r \in ReleaseNames : Drift(r))
    BY <1>1 DEF Drift
  <1>9. CASE WorkerStep
    <2>1. w \in Workers /\ w # None /\ UNCHANGED crashes
      BY <1>9, WorkerSteps DEF WorkerStep, InstallFails, PrepareRelease, CreateRelease,
             ReturnCreated, CreateReleaseFails, ReturnUndone, UpgradeRelease, ReturnUpgraded,
             UpgradeReleaseFails, NothingToUninstall, Uninstall, Unlist, UninstallFails,
             Commit, CommitFails, Goto, Return, Inv, TypeInv
    <2>2. CASE InstallFails \/ ReturnCreated \/ UpgradeReleaseFails
      <3>1. UNCHANGED <<rel, nsmap, faults>> /\ w.pc \in {"install", "created"}
        BY <1>1, <2>2 DEF InstallFails, ReturnCreated, UpgradeReleaseFails, NoPut, At
      <3>2. w'.pc = "commit"
        BY <2>1, <2>2 DEF InstallFails, ReturnCreated, UpgradeReleaseFails, Return, Workers
      <3> QED
        BY <2>1, <3>1, <3>2 DEF Elsewhere, BetweenPcs
    <2>3. CASE Commit \/ CommitFails \/ NothingToUninstall
      <3>1. UNCHANGED <<rel, nsmap, faults>> /\ w.pc \in {"commit", "uninstall"} /\ w' = None
        BY <1>1, <2>3 DEF Commit, CommitFails, NothingToUninstall, Finish, At, helm
      <3> QED
        BY <2>1, <3>1 DEF Elsewhere, BetweenPcs
    <2>4. CASE PrepareRelease
      BY <1>1, <2>1, <2>4 DEF PrepareRelease, Prepares, Register, Goto, NoPut, At, Installing,
             InstallPcs
    <2>5. CASE CreateRelease
      BY <2>1, <2>5 DEF CreateRelease, Creates, Goto, At, Installing, InstallPcs
    <2>6. CASE UpgradeRelease
      BY <2>1, <2>6 DEF UpgradeRelease, Upgrades, Goto, At, Installing, InstallPcs
    <2>7. CASE ReturnUpgraded
      BY <1>1, <2>1, <2>7 DEF ReturnUpgraded, Registers, Register, Return, NoPut, At, Installing,
             InstallPcs
    <2>8. CASE Uninstall
      BY <2>1, <2>8 DEF Uninstall, Removes, At
    <2>9. CASE Unlist
      BY <1>1, <2>1, <2>9 DEF Unlist, Unlists, Finish, NoPut, At
    <2>10. ~CreateReleaseFails /\ ~UninstallFails
      BY <1>1 DEF CreateReleaseFails, UninstallFails
    <2>11. ~ReturnUndone
      <3>1. ReturnUndone => faults = 0 /\ crashes = 0 /\ w.pc = "undo"
        BY <1>1, <2>1 DEF ReturnUndone, At
      <3> QED
        BY <2>1, <3>1 DEF BetweenCalls
    <2> QED
      BY <1>9, <2>2, <2>3, <2>4, <2>5, <2>6, <2>7, <2>8, <2>9, <2>10, <2>11 DEF WorkerStep
  <1> QED
    BY <1>u, <1>3, <1>4, <1>5, <1>6, <1>7, <1>8, <1>9 DEF Next

LEMMA BetweenStep ==
    ASSUME Inv, BetweenCalls, Next
    PROVE  BetweenCalls'
  <1> SUFFICES ASSUME faults' = 0, crashes' = 0, w' # None
               PROVE  /\ w'.pc # "undo"
                      /\ w'.pc = "upgraded" => rel'[RelOf[w'.n]] # None
                      /\ w'.pc = "unlist" => rel'[RelOf[w'.n]] = None
    BY DEF BetweenCalls
  <1>1. faults = 0 /\ crashes = 0
    BY QuietStep
  <1>2. rel \in [ReleaseNames -> Releases \cup {None}] /\ (w \in Workers => RelOf[w.n] \in ReleaseNames)
    BY NamesAssumption DEF Inv, TypeInv, TypeOK, Workers
  <1>3. CASE Elsewhere
    BY <1>1, <1>3 DEF Elsewhere, BetweenPcs, BetweenCalls
  <1>4. CASE Installing /\ (Prepares \/ Registers \/ Creates)
    <2>1. w'.pc \in {"create", "commit", "created"}
      BY <1>4, InstallFacts DEF Prepares, Registers, Creates, Workers
    <2> QED
      BY <2>1
  <1>5. CASE Installing /\ Upgrades
    <2>1. w \in Workers /\ w'.pc = "upgraded" /\ w'.n = w.n
      BY <1>5, InstallFacts DEF Upgrades, Workers
    <2>2. Release("deployed", rel[RelOf[w.n]].ns) \in Releases
      BY <1>5, InstallTypes DEF Upgrades, Inv
    <2>3. rel'[RelOf[w.n]] = Release("deployed", rel[RelOf[w.n]].ns)
      BY <1>2, <1>5, <2>1 DEF Upgrades, Put
    <2> QED
      BY <2>1, <2>2, <2>3, NoneAssumption
  <1>6. CASE w \in Workers /\ Removes
    <2>1. w'.pc = "unlist" /\ w'.n = w.n
      BY <1>6 DEF Removes, Workers
    <2>2. rel'[RelOf[w.n]] = None
      BY <1>2, <1>6 DEF Removes, Put
    <2> QED
      BY <2>1, <2>2
  <1>7. ~Unlists
    BY DEF Unlists
  <1> QED
    BY <1>3, <1>4, <1>5, <1>6, <1>7, QuietStep

LEMMA ListedStep ==
    ASSUME DistinctReleases, Inv, BetweenCalls, ReleasesListed, Next
    PROVE  ReleasesListed'
  <1> SUFFICES ASSUME faults' = 0, crashes' = 0
               PROVE  /\ \A n \in Names : NsOf[n] = "cluster" /\ rel'[RelOf[n]] # None =>
                             <<rel'[RelOf[n]].ns, RelOf[n]>> \in nsmap'
                      /\ w' # None /\ w'.pc = "create" /\ NsOf[w'.n] = "cluster" =>
                             <<TargetNs', RelOf[w'.n]>> \in nsmap'
    BY DEF ReleasesListed
  <1>1. /\ faults = 0 /\ crashes = 0
        /\ \A n \in Names : NsOf[n] = "cluster" /\ rel[RelOf[n]] # None =>
               <<rel[RelOf[n]].ns, RelOf[n]>> \in nsmap
        /\ w # None /\ w.pc = "create" /\ NsOf[w.n] = "cluster" =>
               <<TargetNs, RelOf[w.n]>> \in nsmap
    BY QuietStep DEF ReleasesListed
  <1>2. /\ rel \in [ReleaseNames -> Releases \cup {None}] /\ \A n \in Names : RelOf[n] \in ReleaseNames
        /\ w \in Workers => w.n \in Names
    BY NamesAssumption DEF Inv, TypeInv, TypeOK, Workers
  <1>3. ASSUME w \in Workers, NEW q, Put(q), NEW n \in Names
        PROVE  rel'[RelOf[n]] = IF n = w.n THEN q ELSE rel[RelOf[n]]
    BY <1>2, <1>3 DEF DistinctReleases, Put
  <1>4. \A ns : Release("deployed", ns).ns = ns
    BY DEF Release
  <1>5. CASE Elsewhere
    BY <1>1, <1>5 DEF Elsewhere, BetweenPcs, TargetNs
  <1>6. CASE Installing /\ (Prepares \/ Registers)
    <2>1. w \in Workers /\ w # None
      BY <1>6, InstallFacts
    <2>2. /\ UNCHANGED rel /\ nsmap \subseteq nsmap'
          /\ NsOf[w.n] = "cluster" => <<TargetNs, RelOf[w.n]>> \in nsmap'
      BY <1>6 DEF Prepares, Registers, AddToConfigMap
    <2>3. w'.n = w.n /\ (w'.pc = "create" => w'.obj = w.obj /\ w'.src = w.src)
      BY <1>6, <2>1 DEF Prepares, Registers, Workers
    <2> QED
      BY <1>1, <2>2, <2>3 DEF TargetNs
  <1>7. CASE Installing /\ (Creates \/ Upgrades)
    <2>1. w \in Workers /\ w # None /\ w.n \in Names
      BY <1>7, InstallFacts
    <2>2. w'.pc # "create" /\ UNCHANGED nsmap
      BY <1>7, <2>1 DEF Creates, Upgrades, Workers
    <2>3. ASSUME NEW n \in Names, n # w.n PROVE rel'[RelOf[n]] = rel[RelOf[n]]
      BY <1>3, <1>7, <2>1, <2>3 DEF Creates, Upgrades
    <2>4. CASE Creates
      <3>1. rel'[RelOf[w.n]].ns = TargetNs
        BY <1>3, <1>4, <2>1, <2>4 DEF Creates
      <3> QED
        BY <1>1, <2>1, <2>2, <2>3, <2>4, <3>1 DEF Creates
    <2>5. CASE Upgrades
      <3>1. rel'[RelOf[w.n]].ns = rel[RelOf[w.n]].ns /\ rel[RelOf[w.n]] # None
        BY <1>3, <1>4, <2>1, <2>5 DEF Upgrades
      <3> QED
        BY <1>1, <2>2, <2>3, <3>1
    <2> QED
      BY <1>7, <2>4, <2>5
  <1>8. CASE w \in Workers /\ Removes
    <2>1. w'.pc # "create" /\ UNCHANGED nsmap
      BY <1>8 DEF Removes, Workers
    <2>2. \A n \in Names : rel'[RelOf[n]] # None => rel'[RelOf[n]] = rel[RelOf[n]]
      BY <1>3, <1>8 DEF Removes
    <2> QED
      BY <1>1, <2>1, <2>2
  <1>9. CASE w \in Workers /\ w # None /\ Unlists
    <2>1. rel[RelOf[w.n]] = None
      BY <1>1, <1>9 DEF Unlists, BetweenCalls
    <2>2. ASSUME NEW n \in Names, NsOf[n] = "cluster", rel[RelOf[n]] # None
          PROVE  <<rel[RelOf[n]].ns, RelOf[n]>> \in nsmap'
      <3>1. RelOf[n] # RelOf[w.n]
        BY <2>1, <2>2
      <3>2. <<rel[RelOf[n]].ns, RelOf[n]>> # <<w.ns, RelOf[w.n]>>
        BY <3>1
      <3> QED
        BY <1>1, <1>9, <2>2, <3>2 DEF Unlists, DelFromConfigMap
    <2> QED
      BY <1>9, <2>2 DEF Unlists
  <1> QED
    BY <1>5, <1>6, <1>7, <1>8, <1>9, QuietStep

\* Between two calls, and in between releases and their entries, nothing is lost.
LEMMA ListedInductive ==
    ASSUME DistinctReleases
    PROVE  /\ Init => Inv /\ BetweenCalls /\ ReleasesListed
           /\ Inv /\ BetweenCalls /\ ReleasesListed /\ [Next]_vars =>
                 Inv' /\ BetweenCalls' /\ ReleasesListed'
  <1>1. Init => Inv /\ BetweenCalls /\ ReleasesListed
    BY ConsistentInductive, NamesAssumption DEF Init, BetweenCalls, ReleasesListed
  <1>2. UNCHANGED vars /\ BetweenCalls /\ ReleasesListed => BetweenCalls' /\ ReleasesListed'
    BY DEF vars, BetweenCalls, ReleasesListed, TargetNs
  <1> QED
    BY <1>1, <1>2, ConsistentInductive, BetweenStep, ListedStep

\* As long as nothing has failed the refresher finds the namespace of every release of a
\* cluster's own packages in ns-secret-map, already while helm creates the release, and
\* also when charts or users have moved packages to other namespaces (helmDriver.Install,
\* Uninstall).
THEOREM ReleasesAreListed ==
    ASSUME DistinctReleases
    PROVE  Spec => []ReleasesListed
  <1> QED
    BY ListedInductive, PTL DEF Spec

-----------------------------------------------------------------------------
(* Nothing else is listed, if every Package stays in one namespace.        *)

\* S[n] are the specs Package n may have: those users write, and those that are made for
\* it as a dependency.
MaySpecify(S) ==
    /\ S \in [Names -> SUBSET Specs] /\ \A n \in Names : Wanted[n] \subseteq S[n]
    /\ \A n \in Names, b \in Bundles : \A spec \in S[n] :
          Resolve(b, spec) # None =>
              \A d \in Deps[Resolve(b, spec)] :
                  [pn |-> d, ver |-> Latest, cfg |-> spec.cfg, tns |-> spec.tns] \in S[DepKey[n][d]]

\* Whatever the version of the chart, the resources of n belong into namespace home[n].
Stationary(S, home) ==
    \A n \in Names, b \in Bundles : \A spec \in S[n] :
        Resolve(b, spec) # None => EffNs(spec, Resolve(b, spec)) = home[n]

\* All versions of the objects keep to these specs.
ObjectsKeep(S) ==
    \A n \in Names :
        /\ pkg[n] # None => pkg[n].spec \in S[n]
        /\ cache[n] # None => cache[n].spec \in S[n]
        /\ \A i \in 1..Len(stream[n]) : stream[n][i] # None => stream[n][i].spec \in S[n]
WorkerKeeps(S) ==
    w # None /\ w.pc \notin UninstallPcs =>
        /\ w.obj.spec \in S[w.n]
        /\ w.pc \in InstallPcs => \E b \in Bundles : w.src = Resolve(b, w.obj.spec)

\* Until the first failure releases are where they belong, and the entries are those of
\* the placeholders, of the releases, and of the one that helm is creating or has removed.
Present(n) ==
    rel[RelOf[n]] # None \/ (w # None /\ w.n = n /\ w.pc \in {"create", "unlist"})
HomeEntries(home) ==
    PlaceholderEntries \cup
        {<<home[n], RelOf[n]>> : n \in {m \in Names : NsOf[m] = "cluster" /\ Present(m)}}
AtHome(home) ==
    faults = 0 /\ crashes = 0 =>
        /\ \A n \in Names : rel[RelOf[n]] # None => rel[RelOf[n]].ns = home[n]
        /\ w # None /\ w.pc = "unlist" => w.ns = home[w.n]
        /\ nsmap = HomeEntries(home)

LEMMA SpecsWritten ==
    ASSUME Inv, NEW S, ObjectsKeep(S), NEW K \in SUBSET Names, NEW new \in [K -> Objects \cup {None}],
           Write(K, new), \A n \in K : new[n] # None => new[n].spec \in S[n], UNCHANGED cache
    PROVE  ObjectsKeep(S)'
  <1> SUFFICES ASSUME NEW n \in Names
               PROVE  /\ pkg'[n] # None => pkg'[n].spec \in S[n]
                      /\ \A i \in 1..Len(stream'[n]) : stream'[n][i] # None => stream'[n][i].spec \in S[n]
    BY DEF ObjectsKeep
  <1>1. CASE n \notin K
    BY <1>1 DEF Write, ObjectsKeep
  <1>2. CASE n \in K
    <2>1. pkg'[n] = new[n] /\ stream'[n] = Append(stream[n], new[n]) /\ new[n] \in Objects \cup {None}
      BY <1>2 DEF Write
    <2>2. stream[n] \in Seq(Objects \cup {None})
      BY DEF Inv, TypeInv, TypeOK
    <2>3. \A i \in 1..Len(stream'[n]) :
             stream'[n][i] # new[n] => i \in 1..Len(stream[n]) /\ stream[n][i] = stream'[n][i]
      BY <2>1, <2>2, AppendFacts
    <2> QED
      BY <1>2, <2>1, <2>3 DEF ObjectsKeep
  <1> QED
    BY <1>1, <1>2

LEMMA UserKeeps ==
    ASSUME Inv, NEW S, MaySpecify(S), ObjectsKeep(S), WorkerKeeps(S), User
    PROVE  ObjectsKeep(S)' /\ WorkerKeeps(S)'
  <1>1. ASSUME NEW n \in Names, NEW o \in Objects \cup {None}, UserWrite(n, o),
               o # None => o.spec \in S[n]
        PROVE  ObjectsKeep(S)' /\ WorkerKeeps(S)'
    <2> DEFINE new == [m \in {n} |-> o]
    <2>1. Write({n}, new) /\ Outdate(n) /\ UNCHANGED cache
      BY <1>1 DEF UserWrite
    <2>2. new \in [{n} -> Objects \cup {None}] /\ {n} \in SUBSET Names /\ new[n] = o
      OBVIOUS
    <2> HIDE DEF new
    <2>3. ObjectsKeep(S)'
      BY <1>1, <2>1, <2>2, SpecsWritten
    <2>4. w' # None => w # None /\ w'.n = w.n /\ w'.pc = w.pc /\ w'.obj = w.obj /\ w'.src = w.src
      BY <2>1 DEF Outdate, Inv, TypeInv, TypeOK, Workers
    <2> QED
      BY <2>3, <2>4 DEF WorkerKeeps
  <1>2. ASSUME NEW n \in Names, NEW spec \in Wanted[n], UserCreate(n, spec)
        PROVE  ObjectsKeep(S)' /\ WorkerKeeps(S)'
    <2>1. spec \in Specs /\ spec \in S[n]
      BY CatalogAssumption DEF MaySpecify
    <2>2. NewObject(spec) \in Objects /\ NewObject(spec).spec = spec
      BY <2>1, NewObjectType DEF NewObject
    <2> QED
      BY <1>1, <1>2, <2>1, <2>2 DEF UserCreate
  <1>3. ASSUME NEW n \in Names, NEW spec \in Wanted[n], UserUpdate(n, spec)
        PROVE  ObjectsKeep(S)' /\ WorkerKeeps(S)'
    <2>1. spec \in Specs /\ spec \in S[n]
      BY CatalogAssumption DEF MaySpecify
    <2>2. pkg[n] \in Objects
      BY <1>3 DEF UserUpdate, Inv, TypeInv, TypeOK
    <2>3. [pkg[n] EXCEPT !.spec = spec] \in Objects /\ [pkg[n] EXCEPT !.spec = spec].spec = spec
      BY <2>1, <2>2 DEF Objects
    <2> QED
      BY <1>1, <1>3, <2>1, <2>3 DEF UserUpdate
  <1>4. ASSUME NEW n \in Names, UserDelete(n) PROVE ObjectsKeep(S)' /\ WorkerKeeps(S)'
    BY <1>1, <1>4 DEF UserDelete
  <1>5. ASSUME NEW b, ChangeBundle(b) PROVE ObjectsKeep(S)' /\ WorkerKeeps(S)'
    BY <1>5 DEF ChangeBundle, ObjectsKeep, WorkerKeeps
  <1> QED
    BY <1>2, <1>3, <1>4, <1>5 DEF User

LEMMA DeliverKeeps ==
    ASSUME Inv, NEW S, ObjectsKeep(S), NEW n \in Names, Deliver(n)
    PROVE  ObjectsKeep(S)'
  <1>1. /\ stream[n] \in Seq(Objects \cup {None}) /\ stream \in [Names -> Seq(Objects \cup {None})]
        /\ cache \in [Names -> Objects \cup {None}]
    BY DEF Inv, TypeInv, TypeOK
  <1>2. /\ stream[n] # <<>> /\ cache' = [cache EXCEPT ![n] = Head(stream[n])]
        /\ stream' = [stream EXCEPT ![n] = Tail(stream[n])] /\ UNCHANGED pkg
    BY DEF Deliver
  <1>3. stream'[n] = Tail(stream[n]) /\ cache'[n] = Head(stream[n])
    BY <1>1, <1>2
  <1>4. /\ 1 \in 1..Len(stream[n]) /\ Head(stream[n]) = stream[n][1]
        /\ \A i \in 1..Len(stream'[n]) :
              i + 1 \in 1..Len(stream[n]) /\ stream'[n][i] = stream[n][i + 1]
    BY <1>1, <1>2, <1>3, TailFacts
  <1>5. \A m \in Names : m # n => stream'[m] = stream[m] /\ cache'[m] = cache[m]
    BY <1>1, <1>2
  <1>6. ASSUME NEW m \in Names
        PROVE  /\ cache'[m] # None => cache'[m].spec \in S[m]
               /\ \A i \in 1..Len(stream'[m]) : stream'[m][i] # None => stream'[m][i].spec \in S[m]
    <2>1. CASE m = n
      <3>1. \A i \in 1..Len(stream[n]) : stream[n][i] # None => stream[n][i].spec \in S[n]
        BY DEF ObjectsKeep
      <3> QED
        BY <1>3, <1>4, <2>1, <3>1
    <2>2. CASE m # n
      BY <1>5, <2>2 DEF ObjectsKeep
    <2> QED
      BY <2>1, <2>2
  <1> QED
    BY <1>2, <1>6 DEF ObjectsKeep

\* What is made for dependencies is what MaySpecify allows for.
LEMMA DependenciesKeep ==
    ASSUME Inv, NEW S, MaySpecify(S), ObjectsKeep(S), NEW n \in Names, DependenciesWaiting(n)
    PROVE  ObjectsKeep(S)'
  <1>1. PICK D \in SUBSET Creatable(n) :
           Write({DepKey[n][d] : d \in D},
                 [k \in {DepKey[n][d] : d \in D} |->
                    NewObject(DepSpec(n, CHOOSE d \in D : DepKey[n][d] = k))])
    BY DEF DependenciesWaiting
  <1> DEFINE K == {DepKey[n][d] : d \in D}
             new == [k \in K |-> NewObject(DepSpec(n, CHOOSE d \in D : DepKey[n][d] = k))]
  <1>2. /\ cache[n] \in Objects /\ Source(n) \in Sources /\ Source(n) # None /\ cache[n] # None
        /\ UNCHANGED cache
    BY SourceType, NoneAssumption DEF DependenciesWaiting, InState, Inv, TypeInv
  <1>3. D \subseteq PackageNames /\ D \subseteq Deps[Source(n)]
    BY <1>2, CatalogAssumption DEF Creatable, Missing
  <1>4. K \in SUBSET Names
    BY <1>3, NamesAssumption
  <1>5. bundle \in Bundles /\ cache[n].spec \in S[n]
    BY <1>2 DEF Source, Resolve, Inv, TypeInv, TypeOK, ObjectsKeep
  <1>6. ASSUME NEW k \in K PROVE new[k] \in Objects /\ new[k].spec \in S[k]
    <2>1. PICK d \in D : d = (CHOOSE x \in D : DepKey[n][x] = k) /\ DepKey[n][d] = k
      OBVIOUS
    <2>2. DepSpec(n, d) \in Specs
      BY <1>2, <1>3, CatalogAssumption DEF DepSpec, Specs, Objects
    <2>3. DepSpec(n, d) \in S[k]
      BY <1>2, <1>3, <1>5, <2>1 DEF MaySpecify, DepSpec, Source
    <2>4. new[k] = NewObject(DepSpec(n, d))
      BY <2>1
    <2> QED
      BY <2>2, <2>3, <2>4, NewObjectType DEF NewObject
  <1>7. new \in [K -> Objects \cup {None}]
    BY <1>6
  <1>8. Write(K, new)
    BY <1>1
  <1> HIDE DEF new, K
  <1> QED
    BY <1>2, <1>4, <1>6, <1>7, <1>8, SpecsWritten

\* A reconciliation starts with the spec the cache holds, and installs what the active
\* bundle has for it.
LEMMA ReconcileKeeps ==
    ASSUME Inv, NEW S, MaySpecify(S), ObjectsKeep(S), WorkerKeeps(S), NEW n \in Names, Reconcile(n)
    PROVE  ObjectsKeep(S)' /\ WorkerKeeps(S)'
  <1>1. cache[n] # None => cache[n] \in Objects /\ cache[n].spec \in S[n]
    BY DEF Inv, TypeInv, TypeOK, ObjectsKeep
  <1>2. ASSUME NEW o, NEW src, NEW again, Hold("commit", n, o, src, again), o.spec \in S[n]
        PROVE  WorkerKeeps(S)'
    BY <1>2 DEF Hold, WorkerKeeps, InstallPcs
  <1>3. ASSUME NEW again, Hold("uninstall", n, None, None, again) PROVE WorkerKeeps(S)'
    BY <1>3 DEF Hold, WorkerKeeps, UninstallPcs
  <1>4. CASE DependenciesWaiting(n)
    <2>1. /\ cache[n] # None
          /\ Hold("commit", n, [cache[n] EXCEPT !.detail = "waiting"], Source(n), TRUE)
      BY <1>4 DEF DependenciesWaiting, InState
    <2>2. [cache[n] EXCEPT !.detail = "waiting"].spec = cache[n].spec
      BY <1>1, <2>1 DEF Objects
    <2> QED
      BY <1>1, <1>2, <1>4, <2>1, <2>2, DependenciesKeep
  <1>5. ASSUME ~DependenciesWaiting(n) PROVE UNCHANGED <<pkg, cache, stream>>
    BY <1>5 DEF Reconcile, GetFails, BeginUninstall, RejectDeleted, SaveUnresolved,
           ProcessInvalidNamespace, ProcessInitializing, ProcessUpdating,
           DependenciesUnknown, DependenciesReady, SourceChanged,
           CheckFails, ConfigChanged, NothingToDo, BeginInstall, Save
  <1>6. UNCHANGED <<pkg, cache, stream>> => ObjectsKeep(S)'
    BY DEF ObjectsKeep
  <1>7. ASSUME NEW o, NEW again, Save(n, o, again), o.spec \in S[n]
        PROVE  WorkerKeeps(S)'
    BY <1>2, <1>7 DEF Save
  <1>8. ASSUME GetFails(n) \/ RejectDeleted(n) \/ NothingToDo(n) PROVE WorkerKeeps(S)'
    BY <1>8 DEF GetFails, RejectDeleted, NothingToDo, WorkerKeeps
  <1>9. ASSUME BeginUninstall(n) PROVE WorkerKeeps(S)'
    BY <1>3, <1>9 DEF BeginUninstall
  <1>10. ASSUME BeginInstall(n) PROVE WorkerKeeps(S)'
    <2>1. /\ cache[n] # None /\ Source(n) # None
          /\ Hold("install", n, [cache[n] EXCEPT !.src = Source(n)], Source(n), TRUE)
      BY <1>10 DEF BeginInstall, InState
    <2>2. [cache[n] EXCEPT !.src = Source(n)].spec = cache[n].spec
      BY <1>1, <2>1 DEF Objects
    <2>3. bundle \in Bundles /\ Source(n) = Resolve(bundle, cache[n].spec)
      BY <2>1 DEF Source, Resolve, Inv, TypeInv, TypeOK
    <2> QED
      BY <1>1, <2>1, <2>2, <2>3 DEF Hold, WorkerKeeps
  <1>11. ASSUME SaveUnresolved(n) \/ DependenciesUnknown(n) \/ CheckFails(n) PROVE WorkerKeeps(S)'
    <2>1. cache[n] # None /\ \E again : Save(n, [cache[n] EXCEPT !.detail = "error"], again)
      BY <1>11 DEF SaveUnresolved, DependenciesUnknown, CheckFails, Checkable, InState
    <2>2. [cache[n] EXCEPT !.detail = "error"].spec = cache[n].spec
      BY <1>1, <2>1 DEF Objects
    <2> QED
      BY <1>1, <1>7, <2>1, <2>2
  <1>12. ASSUME ProcessInvalidNamespace(n) PROVE WorkerKeeps(S)'
    <2>1. [cache[n] EXCEPT !.detail = "bad namespace", !.st = "unknown"].spec \in S[n]
      BY <1>1, <1>12 DEF ProcessInvalidNamespace, Objects
    <2>2. UNCHANGED w => WorkerKeeps(S)'
      BY DEF WorkerKeeps
    <2> QED
      BY <1>7, <1>12, <2>1, <2>2 DEF ProcessInvalidNamespace
  <1>13. ASSUME ProcessInitializing(n) PROVE WorkerKeeps(S)'
    <2>1. [cache[n] EXCEPT !.src = Source(n), !.st = "installing dependencies",
                           !.stns = cache[n].spec.tns].spec \in S[n]
      BY <1>1, <1>13 DEF ProcessInitializing, InState, Objects
    <2> QED
      BY <1>7, <1>13, <2>1 DEF ProcessInitializing
  <1>14. ASSUME ProcessUpdating(n) PROVE WorkerKeeps(S)'
    <2>1. [cache[n] EXCEPT !.st = "installing dependencies"].spec \in S[n]
      BY <1>1, <1>14 DEF ProcessUpdating, InState, Objects
    <2> QED
      BY <1>7, <1>14, <2>1 DEF ProcessUpdating
  <1>15. ASSUME DependenciesReady(n) PROVE WorkerKeeps(S)'
    <2>1. [cache[n] EXCEPT !.st = "installing", !.detail = ""].spec \in S[n]
      BY <1>1, <1>15 DEF DependenciesReady, InState, Objects
    <2> QED
      BY <1>7, <1>15, <2>1 DEF DependenciesReady
  <1>16. ASSUME SourceChanged(n) PROVE WorkerKeeps(S)'
    <2>1. [cache[n] EXCEPT !.src = Source(n), !.st = "updating"].spec \in S[n]
      BY <1>1, <1>16 DEF SourceChanged, InState, Objects
    <2> QED
      BY <1>7, <1>16, <2>1 DEF SourceChanged
  <1>17. ASSUME ConfigChanged(n) PROVE WorkerKeeps(S)'
    <2>1. [cache[n] EXCEPT !.st = "updating", !.stns = cache[n].spec.tns].spec \in S[n]
      BY <1>1, <1>17 DEF ConfigChanged, Checkable, InState, Objects
    <2> QED
      BY <1>7, <1>17, <2>1 DEF ConfigChanged
  <1> QED
    BY <1>4, <1>5, <1>6, <1>8, <1>9, <1>10, <1>11, <1>12, <1>13, <1>14, <1>15, <1>16, <1>17
    DEF Reconcile

\* The worker saves the spec it has read, whatever the outcome of the installation.
LEMMA WorkerStepKeeps ==
    ASSUME Inv, NEW S, ObjectsKeep(S), WorkerKeeps(S), WorkerStep
    PROVE  ObjectsKeep(S)' /\ WorkerKeeps(S)'
  <1>1. UNCHANGED <<pkg, cache, stream>> => ObjectsKeep(S)'
    BY DEF ObjectsKeep
  <1>2. w' = None => WorkerKeeps(S)'
    BY DEF WorkerKeeps
  <1>5. CASE InstallStep
    <2>1. Installing /\ Proceeds
      BY <1>5, InstallStepProceeds
    <2>2. /\ w \in Workers /\ w # None
          /\ Installed(w.obj).spec = w.obj.spec /\ Failed(w.obj).spec = w.obj.spec
      BY <2>1, InstallTypes DEF Inv, Installing
    <2>3. w.pc \in InstallPcs /\ UNCHANGED <<pkg, cache, stream>>
      BY <2>1 DEF Installing, Proceeds, Goto, Return
    <2>4. /\ w'.n = w.n /\ w'.obj.spec = w.obj.spec
          /\ w'.pc \in InstallPcs => w'.src = w.src
      BY <2>1, <2>2 DEF Proceeds, Goto, Return, Workers
    <2>5. w.pc \notin UninstallPcs
      BY <2>3 DEF InstallPcs, UninstallPcs
    <2> QED
      BY <1>1, <2>2, <2>3, <2>4, <2>5 DEF WorkerKeeps
  <1>6. CASE NothingToUninstall \/ Unlist \/ UninstallFails \/ CommitFails
    BY <1>1, <1>2, <1>6 DEF NothingToUninstall, Unlist, UninstallFails, CommitFails, Finish
  <1>8. CASE Uninstall
    <2>1. w \in Workers
      BY <1>8 DEF Uninstall, At, Inv, TypeInv, TypeOK
    <2>2. UNCHANGED <<pkg, cache, stream>> /\ w'.pc = "unlist"
      BY <1>8, <2>1 DEF Uninstall, Workers
    <2> QED
      BY <1>1, <2>2 DEF WorkerKeeps, UninstallPcs
  <1>7. CASE Commit
    <2>1. w # None /\ w.pc \notin UninstallPcs /\ w' = None /\ UNCHANGED cache
      BY <1>7 DEF Commit, At, Finish, UninstallPcs
    <2>2. w \in Workers /\ w.n \in Names /\ w.obj \in Objects \cup {None} /\ w.obj.spec \in S[w.n]
      BY <2>1 DEF Inv, TypeInv, TypeOK, Workers, WorkerKeeps
    <2>3. CASE UNCHANGED <<pkg, stream>>
      BY <1>1, <1>2, <2>1, <2>3
    <2>4. CASE Write({w.n}, [m \in {w.n} |-> w.obj])
      <3> DEFINE new == [m \in {w.n} |-> w.obj]
      <3>1. {w.n} \in SUBSET Names /\ new \in [{w.n} -> Objects \cup {None}] /\ new[w.n] = w.obj
        BY <2>2
      <3>2. Write({w.n}, new)
        BY <2>4
      <3> HIDE DEF new
      <3> QED
        BY <1>2, <2>1, <2>2, <3>1, <3>2, SpecsWritten
    <2> QED
      BY <1>7, <2>3, <2>4 DEF Commit
  <1> QED
    BY <1>5, <1>6, <1>7, <1>8, WorkerSteps DEF UninstallStep, Inv, TypeInv

\* All steps.
LEMMA SpecsKept ==
    ASSUME Inv, NEW S, MaySpecify(S), ObjectsKeep(S), WorkerKeeps(S), Next
    PROVE  ObjectsKeep(S)' /\ WorkerKeeps(S)'
  <1>1. UNCHANGED <<pkg, cache, stream>> => ObjectsKeep(S)'
    BY DEF ObjectsKeep
  <1>2. UNCHANGED w \/ w' = None => WorkerKeeps(S)'
    BY DEF WorkerKeeps
  <1>3. ASSUME NEW n \in Names, Deliver(n) \/ TimerFires(n)
        PROVE  ObjectsKeep(S)' /\ WorkerKeeps(S)'
    BY <1>1, <1>2, <1>3, DeliverKeeps DEF Deliver, TimerFires
  <1>4. CASE BundleEvent \/ RunJob \/ Crash \/ \E r \in ReleaseNames : Drift(r)
    BY <1>1, <1>2, <1>4 DEF BundleEvent, RunJob, Crash, Drift
  <1>5. CASE Restart
    <2>1. pkg' = pkg /\ cache' = pkg /\ \A n \in Names : stream'[n] = <<>>
      BY <1>5 DEF Restart
    <2>2. \A n \in Names : Len(stream'[n]) = 0
      BY <2>1
    <2>3. \A n \in Names : 1..Len(stream'[n]) = {}
      BY <2>2
    <2>4. ObjectsKeep(S)'
      BY <2>1, <2>3 DEF ObjectsKeep
    <2> QED
      BY <1>2, <1>5, <2>4 DEF Restart
  <1> QED
    BY <1>3, <1>4, <1>5, UserKeeps, ReconcileKeeps, WorkerStepKeeps DEF Next

\* An installation works for the namespace its Package belongs into.
LEMMA HomeTarget ==
    ASSUME Inv, NEW S, NEW home, Stationary(S, home), WorkerKeeps(S), Installing
    PROVE  TargetNs = home[w.n]
  <1>1. w \in Workers /\ w # None /\ w.n \in Names /\ w.src \in Sources
    BY InstallFacts
  <1>2. w.pc \in InstallPcs /\ w.pc \notin UninstallPcs
    BY DEF Installing, InstallPcs, UninstallPcs
  <1>3. PICK b \in Bundles : w.src = Resolve(b, w.obj.spec)
    BY <1>1, <1>2 DEF WorkerKeeps
  <1> QED
    BY <1>1, <1>2, <1>3, NoneAssumption DEF WorkerKeeps, Stationary, TargetNs

LEMMA AtHomeStep ==
    ASSUME DistinctReleases, Inv, BetweenCalls, NEW S, NEW home, Stationary(S, home),
           WorkerKeeps(S), AtHome(home), Next
    PROVE  AtHome(home)'
  <1> SUFFICES ASSUME faults' = 0, crashes' = 0
               PROVE  /\ \A n \in Names : rel'[RelOf[n]] # None => rel'[RelOf[n]].ns = home[n]
                      /\ w' # None /\ w'.pc = "unlist" => w'.ns = home[w'.n]
                      /\ nsmap' = HomeEntries(home)'
    BY DEF AtHome
  <1>1. /\ faults = 0 /\ crashes = 0
        /\ \A n \in Names : rel[RelOf[n]] # None => rel[RelOf[n]].ns = home[n]
        /\ w # None /\ w.pc = "unlist" => w.ns = home[w.n]
        /\ nsmap = HomeEntries(home)
    BY QuietStep DEF AtHome
  <1>2. /\ rel \in [ReleaseNames -> Releases \cup {None}] /\ \A n \in Names : RelOf[n] \in ReleaseNames
        /\ w \in Workers => w.n \in Names
    BY NamesAssumption DEF Inv, TypeInv, TypeOK, Workers
  <1>3. ASSUME w \in Workers, NEW q, Put(q), NEW n \in Names
        PROVE  rel'[RelOf[n]] = IF n = w.n THEN q ELSE rel[RelOf[n]]
    BY <1>2, <1>3 DEF DistinctReleases, Put
  <1>4. ASSUME UNCHANGED nsmap, \A n \in Names : Present(n)' <=> Present(n)
        PROVE  nsmap' = HomeEntries(home)'
    BY <1>1, <1>4 DEF HomeEntries, PlaceholderEntries
  <1>5. Installing => TargetNs = home[w.n]
    BY HomeTarget
  <1>6. ASSUME NEW q \in Releases, w \in Workers, w # None, w' # None, Put(q), q.ns = home[w.n],
               UNCHANGED nsmap, rel[RelOf[w.n]] # None \/ w.pc = "create",
               w.pc # "unlist", w'.pc \notin {"create", "unlist"}
        PROVE  /\ \A n \in Names : rel'[RelOf[n]] # None => rel'[RelOf[n]].ns = home[n]
               /\ nsmap' = HomeEntries(home)'
    <2>1. \A n \in Names : rel'[RelOf[n]] = IF n = w.n THEN q ELSE rel[RelOf[n]]
      BY <1>3, <1>6
    <2>2. q # None
      BY NoneAssumption
    <2>3. \A n \in Names : Present(n)' <=> Present(n)
      BY <1>6, <2>1, <2>2 DEF Present
    <2> QED
      BY <1>1, <1>4, <1>6, <2>1, <2>3
  <1>7. CASE Elsewhere
    <2>1. \A n \in Names : Present(n)' <=> Present(n)
      BY <1>7 DEF Elsewhere, BetweenPcs, Present
    <2> QED
      BY <1>1, <1>4, <1>7, <2>1 DEF Elsewhere, BetweenPcs
  <1>8. CASE Installing /\ Prepares
    <2>1. w \in Workers /\ w # None /\ w.n \in Names /\ w.pc = "install"
      BY <1>8, InstallFacts DEF Prepares
    <2>2. w' \in Workers /\ w'.pc = "create" /\ w'.n = w.n /\ UNCHANGED rel
      BY <1>8, <2>1 DEF Prepares, Workers, Pcs
    <2>3. \A n \in Names : Present(n)' <=> Present(n) \/ n = w.n
      BY <2>1, <2>2, NoneAssumption DEF Present
    <2>4. nsmap' = IF NsOf[w.n] = "cluster" THEN nsmap \cup {<<home[w.n], RelOf[w.n]>>} ELSE nsmap
      BY <1>5, <1>8 DEF Prepares, AddToConfigMap
    <2>5. nsmap' = HomeEntries(home)'
      BY <1>1, <2>1, <2>3, <2>4 DEF HomeEntries, PlaceholderEntries
    <2> QED
      BY <1>1, <2>2, <2>5
  <1>9. CASE Installing /\ Registers
    <2>1. w \in Workers /\ w # None /\ w.n \in Names /\ w.pc = "upgraded"
      BY <1>9, InstallFacts DEF Registers
    <2>2. w'.pc = "commit" /\ UNCHANGED rel
      BY <1>9, <2>1 DEF Registers, Workers
    <2>3. rel[RelOf[w.n]] # None
      BY <1>1, <2>1 DEF BetweenCalls
    <2>4. \A n \in Names : Present(n)' <=> Present(n)
      BY <2>1, <2>2, <2>3 DEF Present
    <2>5. NsOf[w.n] = "cluster" => <<home[w.n], RelOf[w.n]>> \in nsmap
      BY <1>1, <2>1, <2>3 DEF HomeEntries, Present
    <2>6. UNCHANGED nsmap
      BY <1>5, <1>9, <2>5 DEF Registers, AddToConfigMap
    <2> QED
      BY <1>1, <1>4, <2>2, <2>4, <2>6
  <1>10. CASE Installing /\ Creates
    <2>1. /\ w \in Workers /\ w # None /\ w.pc = "create"
          /\ Release("deployed", TargetNs) \in Releases
      BY <1>10, InstallFacts, InstallTypes DEF Creates, Inv
    <2>2. w' \in Workers /\ w'.pc = "created"
      BY <1>10, <2>1 DEF Creates, Workers, Pcs
    <2>3. Release("deployed", TargetNs).ns = home[w.n]
      BY <1>5, <1>10 DEF Release
    <2>4. Put(Release("deployed", TargetNs)) /\ UNCHANGED nsmap
      BY <1>10 DEF Creates
    <2> QED
      BY <1>6, <2>1, <2>2, <2>3, <2>4, NoneAssumption
  <1>11. CASE Installing /\ Upgrades
    <2>1. /\ w \in Workers /\ w # None /\ w.n \in Names /\ w.pc = "install" /\ rel[RelOf[w.n]] # None
          /\ Release("deployed", rel[RelOf[w.n]].ns) \in Releases
      BY <1>11, InstallFacts, InstallTypes DEF Upgrades, Inv
    <2>2. w' \in Workers /\ w'.pc = "upgraded"
      BY <1>11, <2>1 DEF Upgrades, Workers, Pcs
    <2>3. Release("deployed", rel[RelOf[w.n]].ns).ns = home[w.n]
      BY <1>1, <2>1 DEF Release
    <2>4. Put(Release("deployed", rel[RelOf[w.n]].ns)) /\ UNCHANGED nsmap
      BY <1>11 DEF Upgrades
    <2> QED
      BY <1>6, <2>1, <2>2, <2>3, <2>4, NoneAssumption
  <1>12. CASE w \in Workers /\ w # None /\ Removes
    <2> DEFINE r == rel[RelOf[w.n]]
    <2>1. w.n \in Names /\ w.pc = "uninstall" /\ r # None /\ r \in Releases /\ r.ns = home[w.n]
      BY <1>1, <1>2, <1>12 DEF Removes
    <2>2. w' = [w EXCEPT !.pc = "unlist", !.ns = r.ns]
      BY <1>12 DEF Removes
    <2>3. w' \in Workers /\ w'.pc = "unlist" /\ w'.n = w.n /\ w'.ns = home[w.n]
      BY <1>12, <2>1, <2>2 DEF Workers, Pcs, Releases
    <2>4. \A n \in Names : rel'[RelOf[n]] = IF n = w.n THEN None ELSE rel[RelOf[n]]
      BY <1>3, <1>12 DEF Removes
    <2>5. \A n \in Names : Present(n)' <=> Present(n)
      BY <2>1, <2>3, <2>4, NoneAssumption DEF Present
    <2>6. nsmap' = HomeEntries(home)'
      BY <1>4, <1>12, <2>5 DEF Removes
    <2> QED
      BY <1>1, <2>3, <2>4, <2>6
  <1>13. CASE w \in Workers /\ w # None /\ Unlists
    <2>1. w.n \in Names /\ w.pc = "unlist" /\ rel[RelOf[w.n]] = None /\ w.ns = home[w.n]
      BY <1>1, <1>2, <1>13 DEF Unlists, BetweenCalls
    <2>2. w' = None /\ UNCHANGED rel
      BY <1>13 DEF Unlists
    <2>3. \A n \in Names : Present(n)' <=> Present(n) /\ n # w.n
      BY <2>1, <2>2 DEF Present
    <2>4. nsmap' = IF NsOf[w.n] = "cluster" THEN nsmap \ {<<home[w.n], RelOf[w.n]>>} ELSE nsmap
      BY <1>13, <2>1 DEF Unlists, DelFromConfigMap
    <2>5. \A n \in Names : n # w.n => <<home[n], RelOf[n]>> # <<home[w.n], RelOf[w.n]>>
      BY <2>1 DEF DistinctReleases
    <2>6. <<home[w.n], RelOf[w.n]>> \notin PlaceholderEntries
      BY <1>2, <2>1, NoneAssumption DEF PlaceholderEntries
    <2>7. PlaceholderEntries' = PlaceholderEntries
      BY DEF PlaceholderEntries
    <2>8. nsmap' = HomeEntries(home)'
      BY <1>1, <2>1, <2>3, <2>4, <2>5, <2>6, <2>7 DEF HomeEntries
    <2> QED
      BY <1>1, <2>2, <2>8
  <1> QED
    BY <1>7, <1>8, <1>9, <1>10, <1>11, <1>12, <1>13, QuietStep

\* If no change of the spec or of the chart moves a Package to another namespace (home),
\* ns-secret-map lists, until something fails, the placeholders it was created with, the
\* namespaces of the releases, and that of the one release helm is just creating or has
\* just removed: every release is entered before helm creates it, and its entry is taken
\* back once it is gone (helmDriver.Install, Uninstall).
THEOREM NsMapExact ==
    ASSUME DistinctReleases, NEW S, NEW home, MaySpecify(S), Stationary(S, home)
    PROVE  Spec => []NsMapMatchesReleases
  <1> DEFINE I == /\ Inv /\ BetweenCalls /\ ReleasesListed
                  /\ ObjectsKeep(S) /\ WorkerKeeps(S) /\ AtHome(home)
  <1>1. Init => I
    <2>1. ASSUME Init PROVE ObjectsKeep(S)
      <3>1. \A n \in Names : pkg[n] = None /\ cache[n] = None /\ stream[n] = <<>>
        BY <2>1 DEF Init
      <3>2. \A n \in Names : Len(stream[n]) = 0
        BY <3>1
      <3>3. \A n \in Names : 1..Len(stream[n]) = {}
        BY <3>2
      <3> QED
        BY <3>1, <3>3 DEF ObjectsKeep
    <2>2. ASSUME Init PROVE WorkerKeeps(S) /\ AtHome(home)
      <3>1. w = None /\ nsmap = PlaceholderEntries /\ \A n \in Names : rel[RelOf[n]] = None
        BY <2>2, NamesAssumption DEF Init
      <3>2. nsmap = HomeEntries(home)
        BY <3>1 DEF HomeEntries, Present
      <3> QED
        BY <3>1, <3>2 DEF WorkerKeeps, AtHome
    <2> QED
      BY <2>1, <2>2, ListedInductive
  <1>2. I /\ [Next]_vars => I'
    <2>1. ASSUME I, UNCHANGED vars PROVE ObjectsKeep(S)' /\ WorkerKeeps(S)' /\ AtHome(home)'
      BY <2>1 DEF vars, ObjectsKeep, WorkerKeeps, AtHome, HomeEntries, PlaceholderEntries, Present
    <2>2. ASSUME I, Next PROVE ObjectsKeep(S)' /\ WorkerKeeps(S)' /\ AtHome(home)'
      BY <2>2, SpecsKept, AtHomeStep
    <2> QED
      BY <2>1, <2>2, ListedInductive
  <1>3. I => NsMapMatchesReleases
    <2> SUFFICES ASSUME Inv, WorkerKeeps(S), AtHome(home), faults = 0, crashes = 0
                 PROVE  nsmap = PlaceholderEntries \cup ListedReleases \cup InTransit
      BY DEF NsMapMatchesReleases
    <2>1. /\ \A n \in Names : rel[RelOf[n]] # None => rel[RelOf[n]].ns = home[n]
          /\ w # None /\ w.pc = "unlist" => w.ns = home[w.n]
          /\ nsmap = HomeEntries(home)
      BY DEF AtHome
    <2> DEFINE Moving == {m \in Names : w # None /\ w.n = m /\ w.pc \in {"create", "unlist"}}
    <2>2. ListedReleases = {<<home[n], RelOf[n]>> :
                              n \in {m \in Names : NsOf[m] = "cluster" /\ rel[RelOf[m]] # None}}
      BY <2>1 DEF ListedReleases
    <2>3. InTransit = {<<home[n], RelOf[n]>> : n \in {m \in Moving : NsOf[m] = "cluster"}}
      <3>1. CASE w = None \/ w.pc \notin {"create", "unlist"}
        BY <3>1 DEF InTransit
      <3>2. CASE w # None /\ w.pc \in {"create", "unlist"}
        <4>1. w.n \in Names /\ w \in Workers
          BY <3>2 DEF Inv, TypeInv, TypeOK, Workers
        <4>2. w.pc = "create" => TargetNs = home[w.n]
          <5>1. w.pc = "create" => Installing
            BY <3>2 DEF Installing, InstallPcs, Inv, Consistent, WorkerConsistent
          <5> QED
            BY <5>1, HomeTarget
        <4>3. Moving = {w.n}
          BY <3>2, <4>1
        <4> QED
          BY <2>1, <3>2, <4>1, <4>2, <4>3 DEF InTransit
      <3> QED
        BY <3>1, <3>2
    <2> QED
      BY <2>1, <2>2, <2>3 DEF HomeEntries, Present
  <1> HIDE DEF I
  <1> QED
    BY <1>1, <1>2, <1>3, PTL DEF Spec
=============================================================================
