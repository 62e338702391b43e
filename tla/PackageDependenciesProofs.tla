----------------------- MODULE PackageDependenciesProofs -----------------------
(***************************************************************************)
(* When PackageLifecycle installs a package after the packages it depends  *)
(* on: what has to be given for it, and the proof that it is enough.       *)
(***************************************************************************)
EXTENDS PackageReleasesProofs

\* What is given: a Package stays the Package of one package, of whose versions all have
\* the same dependencies, and what others depend on is not deleted.  S are the specs it
\* may have, P its package, D the dependencies.
Given(S, P, D) ==
    /\ MaySpecify(S)
    /\ \A n \in Names : \A spec \in S[n] : spec.pn = P[n]
    /\ \A n \in Names, b \in Bundles : \A spec \in S[n] :
          Resolve(b, spec) # None => Deps[Resolve(b, spec)] = D[n]
    /\ \A m, n \in Names : NsOf[m] = NsOf[n] /\ P[m] \in D[n] => m \notin Deletable

\* The versions of a Package that are around.
Seen(n) == {pkg[n], cache[n]} \cup {stream[n][i] : i \in 1..Len(stream[n])}

\* A Package that has been installed and was not deleted since.
Served(m) ==
    /\ pkg[m] # None /\ pkg[m].st # ""
    /\ rel[RelOf[m]] # None \/ RelOf[m] \in drifted

Ready(n, P, D) ==
    \A d \in D[n] : \E m \in Names : NsOf[m] = NsOf[n] /\ P[m] = d /\ Served(m)

\* Any version that says "installed" tells the truth about a Package that is not deleted,
\* and any version that says "installing" about the dependencies.
VersionsTrue(P, D) ==
    \A n \in Names : \A o \in Seen(n) : o # None =>
        /\ o.st = "installed" /\ n \notin Deletable => Served(n)
        /\ o.st = "installing" => Ready(n, P, D)
WorkerReady(P, D) ==
    w # None /\ w.pc \notin UninstallPcs /\ w.obj.st = "installing" => Ready(w.n, P, D)

-----------------------------------------------------------------------------
\* What is written is a new Package, an update by the user, or what a reconciliation
\* saves.
LEMMA ObjectsWritten ==
    ASSUME Inv, Next, NEW n \in Names, pkg'[n] # pkg[n]
    PROVE  /\ pkg'[n] = None => n \in Deletable
           /\ pkg'[n] # None => \/ pkg'[n].st = "" /\ pkg[n] = None
                                \/ pkg[n] # None /\ pkg'[n].st = pkg[n].st
                                \/ w # None /\ w.n = n /\ w.pc \notin UninstallPcs /\ pkg'[n] = w.obj
  <1>1. CASE User
    <2>1. ASSUME NEW m \in Names, NEW o, UserWrite(m, o)
          PROVE  n = m /\ pkg'[n] = o
      BY <2>1 DEF UserWrite, Write
    <2>2. ASSUME NEW m \in Names, NEW spec, UserCreate(m, spec)
          PROVE  pkg'[n].st = "" /\ pkg[n] = None /\ pkg'[n] # None
      <3>1. n = m /\ pkg'[n] = NewObject(spec) /\ pkg[n] = None
        BY <2>1, <2>2 DEF UserCreate
      <3>2. NewObject(spec).st = ""
        BY DEF NewObject
      <3> QED
        BY <3>1, <3>2
    <2>3. ASSUME NEW m \in Names, NEW spec \in Wanted[m], UserUpdate(m, spec)
          PROVE  pkg[n] # None /\ pkg'[n] # None /\ pkg'[n].st = pkg[n].st
      <3>1. n = m /\ pkg'[n] = [pkg[n] EXCEPT !.spec = spec] /\ pkg[n] \in Objects /\ spec \in Specs
        BY <2>1, <2>3, CatalogAssumption DEF UserUpdate, Inv, TypeInv, TypeOK
      <3>2. pkg'[n] \in Objects
        BY <3>1 DEF Objects
      <3> QED
        BY <3>1, <3>2, NoneAssumption DEF Objects
    <2>4. ASSUME NEW m \in Names, UserDelete(m) PROVE pkg'[n] = None /\ n \in Deletable
      BY <2>1, <2>4 DEF UserDelete
    <2>5. ASSUME NEW b, ChangeBundle(b) PROVE FALSE
      BY <2>5 DEF ChangeBundle
    <2> QED
      BY <1>1, <2>2, <2>3, <2>4, <2>5 DEF User
  <1>2. ASSUME NEW m \in Names, Deliver(m) \/ TimerFires(m) PROVE FALSE
    BY <1>2 DEF Deliver, TimerFires
  <1>3. ASSUME NEW m \in Names, Reconcile(m), ~DependenciesWaiting(m) PROVE FALSE
    BY <1>3 DEF Reconcile, GetFails, BeginUninstall, RejectDeleted, SaveUnresolved,
           ProcessInvalidNamespace, ProcessInitializing, ProcessUpdating,
           DependenciesUnknown, DependenciesReady, SourceChanged,
           CheckFails, ConfigChanged, NothingToDo, BeginInstall, Save
  <1>4. ASSUME NEW m \in Names, DependenciesWaiting(m)
        PROVE  pkg'[n] # None /\ pkg'[n].st = "" /\ pkg[n] = None
    <2>1. PICK E \in SUBSET Creatable(m) :
             Write({DepKey[m][d] : d \in E},
                   [k \in {DepKey[m][d] : d \in E} |->
                      NewObject(DepSpec(m, CHOOSE d \in E : DepKey[m][d] = k))])
      BY <1>4 DEF DependenciesWaiting
    <2>2. PICK d \in E : n = DepKey[m][d]
      BY <2>1 DEF Write
    <2>3. pkg[n] = None
      BY <2>2 DEF Creatable
    <2>4. \E spec : pkg'[n] = NewObject(spec)
      BY <2>1, <2>2 DEF Write
    <2>5. \A spec : NewObject(spec).st = ""
      BY DEF NewObject
    <2> QED
      BY <2>3, <2>4, <2>5
  <1>5. CASE BundleEvent \/ RunJob \/ Restart \/ Crash
    BY <1>5 DEF BundleEvent, RunJob, Restart, Crash
  <1>6. ASSUME WorkerStep, ~Commit PROVE FALSE
    BY <1>6 DEF WorkerStep, InstallFails, PrepareRelease, CreateRelease, ReturnCreated,
           CreateReleaseFails, ReturnUndone, UpgradeRelease, ReturnUpgraded,
           UpgradeReleaseFails, NothingToUninstall, Uninstall, Unlist, UninstallFails,
           CommitFails, Return, Goto
  <1>7. CASE Commit
    <2>1. w # None /\ w.pc = "commit" /\ w.obj # pkg[w.n] /\ Write({w.n}, [m \in {w.n} |-> w.obj])
      BY <1>7 DEF Commit, At, Write
    <2>2. w.obj # None
      BY <2>1 DEF Inv, TypeInv, InstallReady
    <2> QED
      BY <2>1, <2>2 DEF Write, UninstallPcs
  <1>8. ASSUME NEW q \in ReleaseNames, Drift(q) PROVE FALSE
    BY <1>8 DEF Drift
  <1> QED
    BY <1>1, <1>2, <1>3, <1>4, <1>5, <1>6, <1>7, <1>8 DEF Next

\* Versions that are not old ones are the one just written.
LEMMA VersionsSeen ==
    ASSUME Inv, Next, NEW n \in Names
    PROVE  Seen(n)' \subseteq Seen(n) \cup {pkg'[n]}
  <1>1. stream[n] \in Seq(Objects \cup {None})
    BY DEF Inv, TypeInv, TypeOK
  <1>2. UNCHANGED <<cache, stream>> => Seen(n)' \subseteq Seen(n) \cup {pkg'[n]}
    BY DEF Seen
  <1>3. ASSUME UNCHANGED cache, NEW K \in SUBSET Names, NEW new \in [K -> Objects \cup {None}], Write(K, new)
        PROVE  Seen(n)' \subseteq Seen(n) \cup {pkg'[n]}
    <2>1. CASE n \notin K
      BY <1>3, <2>1 DEF Write, Seen
    <2>2. CASE n \in K
      <3>1. pkg'[n] = new[n] /\ stream'[n] = Append(stream[n], new[n]) /\ new[n] \in Objects \cup {None}
        BY <1>3, <2>2 DEF Write
      <3>2. \A i \in 1..Len(stream'[n]) :
               stream'[n][i] # pkg'[n] => i \in 1..Len(stream[n]) /\ stream[n][i] = stream'[n][i]
        BY <1>1, <3>1, AppendFacts
      <3> QED
        BY <1>3, <3>2 DEF Seen
    <2> QED
      BY <2>1, <2>2
  <1>4. CASE User
    <2>1. ASSUME NEW m \in Names, NEW o \in Objects \cup {None}, UserWrite(m, o)
          PROVE  Seen(n)' \subseteq Seen(n) \cup {pkg'[n]}
      <3> DEFINE new == [k \in {m} |-> o]
      <3>1. Write({m}, new) /\ UNCHANGED cache /\ {m} \in SUBSET Names /\ new \in [{m} -> Objects \cup {None}]
        BY <2>1 DEF UserWrite
      <3> HIDE DEF new
      <3> QED
        BY <1>3, <3>1
    <2>2. ASSUME NEW m \in Names, NEW spec \in Wanted[m], UserCreate(m, spec)
          PROVE  Seen(n)' \subseteq Seen(n) \cup {pkg'[n]}
      BY <2>1, <2>2, NewObjectType, CatalogAssumption DEF UserCreate
    <2>3. ASSUME NEW m \in Names, NEW spec \in Wanted[m], UserUpdate(m, spec)
          PROVE  Seen(n)' \subseteq Seen(n) \cup {pkg'[n]}
      <3>1. pkg[m] \in Objects /\ spec \in Specs
        BY <2>3, CatalogAssumption DEF UserUpdate, Inv, TypeInv, TypeOK
      <3>2. [pkg[m] EXCEPT !.spec = spec] \in Objects
        BY <3>1 DEF Objects
      <3> QED
        BY <2>1, <2>3, <3>2 DEF UserUpdate
    <2>4. ASSUME NEW m \in Names, UserDelete(m) PROVE Seen(n)' \subseteq Seen(n) \cup {pkg'[n]}
      BY <2>1, <2>4 DEF UserDelete
    <2>5. ASSUME NEW b, ChangeBundle(b) PROVE UNCHANGED <<cache, stream>>
      BY <2>5 DEF ChangeBundle
    <2> QED
      BY <1>2, <1>4, <2>2, <2>3, <2>4, <2>5 DEF User
  <1>5. ASSUME NEW m \in Names, Deliver(m) PROVE Seen(n)' \subseteq Seen(n) \cup {pkg'[n]}
    <2>1. /\ stream[m] # <<>> /\ cache' = [cache EXCEPT ![m] = Head(stream[m])]
          /\ stream' = [stream EXCEPT ![m] = Tail(stream[m])] /\ UNCHANGED pkg
      BY <1>5 DEF Deliver
    <2>2. stream \in [Names -> Seq(Objects \cup {None})] /\ cache \in [Names -> Objects \cup {None}]
      BY DEF Inv, TypeInv, TypeOK
    <2>3. CASE n # m
      <3>1. stream'[n] = stream[n] /\ cache'[n] = cache[n]
        BY <2>1, <2>2, <2>3
      <3> QED
        BY <2>1, <3>1 DEF Seen
    <2>4. CASE n = m
      <3>1. stream'[n] = Tail(stream[n]) /\ cache'[n] = Head(stream[n])
        BY <2>1, <2>2, <2>4
      <3>2. /\ 1 \in 1..Len(stream[n]) /\ cache'[n] = stream[n][1]
            /\ \A i \in 1..Len(stream'[n]) :
                  i + 1 \in 1..Len(stream[n]) /\ stream'[n][i] = stream[n][i + 1]
        BY <1>1, <2>1, <2>4, <3>1, TailFacts
      <3>3. cache'[n] \in Seen(n) /\ \A i \in 1..Len(stream'[n]) : stream'[n][i] \in Seen(n)
        BY <3>2 DEF Seen
      <3> QED
        BY <3>3 DEF Seen
    <2> QED
      BY <2>3, <2>4
  <1>6. ASSUME NEW m \in Names, Reconcile(m), ~DependenciesWaiting(m) PROVE UNCHANGED <<cache, stream>>
    BY <1>6 DEF Reconcile, GetFails, BeginUninstall, RejectDeleted, SaveUnresolved,
           ProcessInvalidNamespace, ProcessInitializing, ProcessUpdating,
           DependenciesUnknown, DependenciesReady, SourceChanged,
           CheckFails, ConfigChanged, NothingToDo, BeginInstall, Save
  <1>7. ASSUME NEW m \in Names, DependenciesWaiting(m)
        PROVE  Seen(n)' \subseteq Seen(n) \cup {pkg'[n]}
    <2>1. PICK E \in SUBSET Creatable(m) :
             Write({DepKey[m][d] : d \in E},
                   [k \in {DepKey[m][d] : d \in E} |->
                      NewObject(DepSpec(m, CHOOSE d \in E : DepKey[m][d] = k))])
      BY <1>7 DEF DependenciesWaiting
    <2> DEFINE K == {DepKey[m][d] : d \in E}
               new == [k \in K |-> NewObject(DepSpec(m, CHOOSE d \in E : DepKey[m][d] = k))]
    <2>2. cache[m] \in Objects /\ Source(m) \in Sources /\ UNCHANGED cache
      BY <1>7, SourceType, NoneAssumption DEF DependenciesWaiting, InState, Inv, TypeInv
    <2>3. E \subseteq PackageNames
      BY <2>2, CatalogAssumption DEF Creatable, Missing
    <2>4. K \in SUBSET Names
      BY <2>3, NamesAssumption
    <2>5. ASSUME NEW k \in K PROVE new[k] \in Objects
      <3>1. PICK d \in E : d = (CHOOSE x \in E : DepKey[m][x] = k) /\ DepKey[m][d] = k
        OBVIOUS
      <3>2. DepSpec(m, d) \in Specs
        BY <2>2, <2>3, CatalogAssumption DEF DepSpec, Specs, Objects
      <3> QED
        BY <3>1, <3>2, NewObjectType
    <2>6. new \in [K -> Objects \cup {None}] /\ Write(K, new)
      BY <2>1, <2>5
    <2> HIDE DEF new, K
    <2> QED
      BY <1>3, <2>2, <2>4, <2>6
  <1>8. ASSUME WorkerStep, ~Commit PROVE UNCHANGED <<cache, stream>>
    BY <1>8 DEF WorkerStep, InstallFails, PrepareRelease, CreateRelease, ReturnCreated,
           CreateReleaseFails, ReturnUndone, UpgradeRelease, ReturnUpgraded,
           UpgradeReleaseFails, NothingToUninstall, Uninstall, Unlist, UninstallFails,
           CommitFails, Return, Goto
  <1>9. CASE Commit
    <2>1. w \in Workers /\ UNCHANGED cache
      BY <1>9 DEF Commit, At, Inv, TypeInv, TypeOK
    <2> DEFINE new == [m \in {w.n} |-> w.obj]
    <2>2. {w.n} \in SUBSET Names /\ new \in [{w.n} -> Objects \cup {None}]
      BY <2>1 DEF Workers
    <2>3. UNCHANGED stream \/ Write({w.n}, new)
      BY <1>9 DEF Commit
    <2> HIDE DEF new
    <2> QED
      BY <1>2, <1>3, <2>1, <2>2, <2>3
  <1>10. CASE Restart
    <2>1. cache'[n] = pkg[n] /\ stream'[n] = <<>>
      BY <1>10 DEF Restart
    <2>2. 1..Len(stream'[n]) = {}
      BY <2>1
    <2> QED
      BY <2>1, <2>2 DEF Seen
  <1>11. (\E m \in Names : TimerFires(m)) \/ BundleEvent \/ RunJob \/ Crash
           \/ (\E r \in ReleaseNames : Drift(r)) => UNCHANGED <<cache, stream>>
    BY DEF TimerFires, BundleEvent, RunJob, Crash, Drift
  <1> QED
    BY <1>2, <1>4, <1>5, <1>6, <1>7, <1>8, <1>9, <1>10, <1>11 DEF Next

\* What is installed and not deleted keeps its release, or loses it to somebody else.
LEMMA ServedStays ==
    ASSUME DistinctReleases, Inv, Next, NEW m \in Names, m \notin Deletable, Served(m)
    PROVE  Served(m)'
  <1>1. pkg'[m] # None
    BY ObjectsWritten DEF Served
  <1>2. pkg'[m].st # ""
    BY <1>1, ObjectsKept DEF Served, Arcs
  <1>3. rel'[RelOf[m]] # None \/ RelOf[m] \in drifted'
    <2>1. /\ RelOf[m] \in ReleaseNames
          /\ w \in Workers => w.n \in Names /\ RelOf[w.n] \in ReleaseNames
          /\ rel \in [ReleaseNames -> Releases \cup {None}]
      BY NamesAssumption DEF Workers, Inv, TypeInv, TypeOK
    <2>2. ASSUME w \in Workers, NEW q \in Releases, Put(q)
          PROVE  rel'[RelOf[m]] # None \/ RelOf[m] \in drifted'
      BY <2>1, <2>2, NoneAssumption DEF Put, Served
    <2>3. ASSUME w \in Workers, Put(None), rel[RelOf[w.n]] = None
          PROVE  rel'[RelOf[m]] # None \/ RelOf[m] \in drifted'
      BY <2>1, <2>3 DEF Put, Served
    <2>4. ASSUME w \in Workers, Put(None), w.pc = "uninstall"
          PROVE  rel'[RelOf[m]] # None \/ RelOf[m] \in drifted'
      <3>1. w.n # m
        BY <2>4, NoneAssumption DEF Inv, Consistent, WorkerConsistent, Served
      <3> QED
        BY <2>1, <2>4, <3>1 DEF Put, Served, DistinctReleases
    <2>5. ASSUME NEW q \in ReleaseNames, Drift(q)
          PROVE  rel'[RelOf[m]] # None \/ RelOf[m] \in drifted'
      BY <2>1, <2>5 DEF Drift, Served
    <2>6. CASE UNCHANGED <<rel, drifted>>
      BY <2>6 DEF Served
    <2> QED
      BY <2>2, <2>3, <2>4, <2>5, <2>6, ReleasesKept
  <1> QED
    BY <1>1, <1>2, <1>3 DEF Served

LEMMA ReadyStays ==
    ASSUME DistinctReleases, Inv, Next, NEW S, NEW P, NEW D, Given(S, P, D), NEW n \in Names,
           Ready(n, P, D)
    PROVE  Ready(n, P, D)'
  <1> SUFFICES ASSUME NEW d \in D[n]
               PROVE  \E m \in Names : NsOf[m] = NsOf[n] /\ P[m] = d /\ Served(m)'
    BY DEF Ready
  <1>1. PICK m \in Names : NsOf[m] = NsOf[n] /\ P[m] = d /\ Served(m)
    BY DEF Ready
  <1>2. m \notin Deletable
    BY <1>1 DEF Given
  <1> QED
    BY <1>1, <1>2, ServedStays

\* A reconciliation comes to "installing" by what it has read, or finds the dependencies
\* installed.
LEMMA ComesToInstalling ==
    ASSUME Inv, Next, w' # None, w'.pc \notin UninstallPcs, w'.obj.st = "installing"
    PROVE  \/ w # None /\ w.pc \notin UninstallPcs /\ w'.n = w.n /\ w.obj.st = "installing"
           \/ \E n \in Names : /\ w'.n = n /\ cache[n] # None
                               /\ cache[n].st = "installing" \/ DependenciesReady(n)
  <1> DEFINE Before == w # None /\ w.pc \notin UninstallPcs /\ w'.n = w.n /\ w.obj.st = "installing"
  <1>1. w # None => w \in Workers
    BY DEF Inv, TypeInv, TypeOK
  <1>2. CASE UNCHANGED w
    BY <1>2 DEF Inv, TypeInv, TypeOK, Workers
  <1>3. CASE \E n \in Names : Outdate(n)
    BY <1>1, <1>3 DEF Outdate, Workers
  <1>4. ASSUME NEW n \in Names, Reconcile(n), ~UNCHANGED w
        PROVE  /\ w'.n = n /\ cache[n] # None
               /\ cache[n].st = "installing" \/ DependenciesReady(n)
    <2>1. ASSUME NEW pc, NEW o, NEW src, NEW again, Hold(pc, n, o, src, again)
          PROVE  w'.pc = pc /\ w'.n = n /\ w'.obj = o
      BY <2>1 DEF Hold
    <2>2. ASSUME NEW o, NEW again, Save(n, o, again) PROVE w'.n = n /\ w'.obj = o
      BY <2>1, <2>2 DEF Save
    <2>3. ~GetFails(n) /\ ~RejectDeleted(n) /\ ~NothingToDo(n) /\ ~BeginUninstall(n)
      BY <1>4, <2>1 DEF GetFails, RejectDeleted, NothingToDo, BeginUninstall, UninstallPcs
    <2>4. cache[n] # None
      BY <1>4, <2>3 DEF Reconcile, SaveUnresolved, ProcessInvalidNamespace, ProcessInitializing,
             ProcessUpdating, DependenciesUnknown, DependenciesReady, DependenciesWaiting,
             SourceChanged, CheckFails, ConfigChanged, BeginInstall, InState, Checkable
    <2>5. cache[n] \in Objects
      BY <2>4 DEF Inv, TypeInv, TypeOK
    <2>6. CASE SaveUnresolved(n) \/ DependenciesUnknown(n) \/ CheckFails(n)
      <3>1. \E again : Save(n, [cache[n] EXCEPT !.detail = "error"], again)
        BY <2>6 DEF SaveUnresolved, DependenciesUnknown, CheckFails
      <3>2. [cache[n] EXCEPT !.detail = "error"].st = cache[n].st
        BY <2>5 DEF Objects
      <3> QED
        BY <2>2, <2>4, <3>1, <3>2
    <2>7. CASE DependenciesWaiting(n)
      <3>1. [cache[n] EXCEPT !.detail = "waiting"].st = cache[n].st
        BY <2>5 DEF Objects
      <3> QED
        BY <2>1, <2>4, <2>7, <3>1 DEF DependenciesWaiting
    <2>8. CASE BeginInstall(n)
      BY <2>1, <2>4, <2>8 DEF BeginInstall, InState
    <2>9. CASE DependenciesReady(n)
      BY <2>2, <2>4, <2>9 DEF DependenciesReady
    <2>10. ~ProcessInvalidNamespace(n)
      <3>1. [cache[n] EXCEPT !.detail = "bad namespace", !.st = "unknown"].st = "unknown"
        BY <2>5 DEF Objects
      <3> QED
        BY <1>4, <2>2, <3>1 DEF ProcessInvalidNamespace
    <2>11. ~ProcessInitializing(n)
      <3>1. [cache[n] EXCEPT !.src = Source(n), !.st = "installing dependencies",
                             !.stns = cache[n].spec.tns].st = "installing dependencies"
        BY <2>5 DEF Objects
      <3> QED
        BY <2>2, <3>1 DEF ProcessInitializing
    <2>12. ~ProcessUpdating(n)
      <3>1. [cache[n] EXCEPT !.st = "installing dependencies"].st = "installing dependencies"
        BY <2>5 DEF Objects
      <3> QED
        BY <2>2, <3>1 DEF ProcessUpdating
    <2>13. ~SourceChanged(n)
      <3>1. [cache[n] EXCEPT !.src = Source(n), !.st = "updating"].st = "updating"
        BY <2>5 DEF Objects
      <3> QED
        BY <2>2, <3>1 DEF SourceChanged
    <2>14. ~ConfigChanged(n)
      <3>1. [cache[n] EXCEPT !.st = "updating", !.stns = cache[n].spec.tns].st = "updating"
        BY <2>5 DEF Objects
      <3> QED
        BY <2>2, <3>1 DEF ConfigChanged
    <2> QED
      BY <1>4, <2>3, <2>6, <2>7, <2>8, <2>9, <2>10, <2>11, <2>12, <2>13, <2>14 DEF Reconcile
  <1>5. ASSUME WorkerStep PROVE Before
    <2>1. ~NothingToUninstall /\ ~Unlist /\ ~UninstallFails /\ ~Commit /\ ~CommitFails
      BY DEF NothingToUninstall, Unlist, UninstallFails, Commit, CommitFails, Finish
    <2>2. w \in Workers /\ w # None /\ (InstallStep \/ Uninstall)
      BY <1>5, <2>1, WorkerSteps DEF UninstallStep, Inv, TypeInv
    <2>3. ~Uninstall
      BY <2>2 DEF Uninstall, UninstallPcs, Workers
    <2>4. Installing /\ Proceeds
      BY <2>2, <2>3, InstallStepProceeds
    <2>5. Installed(w.obj).st = "installed" /\ Failed(w.obj).st = w.obj.st
      BY <2>4, InstallTypes DEF Inv
    <2>6. w'.n = w.n /\ w'.obj \in {w.obj, Installed(w.obj), Failed(w.obj)}
      BY <2>2, <2>4 DEF Proceeds, Goto, Return, Workers
    <2> QED
      BY <2>2, <2>4, <2>5, <2>6 DEF Installing, InstallPcs, UninstallPcs
  <1>6. User => UNCHANGED w \/ \E n \in Names : Outdate(n)
    BY DEF User, UserCreate, UserUpdate, UserDelete, UserWrite, ChangeBundle
  <1>7. ASSUME NEW n \in Names, Deliver(n) \/ TimerFires(n) PROVE UNCHANGED w
    BY <1>7 DEF Deliver, TimerFires
  <1>8. BundleEvent \/ RunJob \/ Restart \/ (\E r \in ReleaseNames : Drift(r)) => UNCHANGED w
    BY DEF BundleEvent, RunJob, Restart, Drift
  <1>9. ~Crash
    BY DEF Crash
  <1> QED
    BY <1>2, <1>3, <1>4, <1>5, <1>6, <1>7, <1>8, <1>9 DEF Next

\* Dependencies that are found installed are so, whatever version the cache holds.
LEMMA FoundReady ==
    ASSUME Inv, NEW S, NEW P, NEW D, Given(S, P, D), ObjectsKeep(S), VersionsTrue(P, D),
           NEW n \in Names, DependenciesReady(n)
    PROVE  Ready(n, P, D)
  <1> SUFFICES ASSUME NEW d \in D[n]
               PROVE  \E m \in Names : NsOf[m] = NsOf[n] /\ P[m] = d /\ Served(m)
    BY DEF Ready
  <1>1. cache[n] # None /\ Source(n) # None
    BY DEF DependenciesReady, InState
  <1>2. bundle \in Bundles /\ cache[n].spec \in S[n]
    BY <1>1 DEF Source, Resolve, Inv, TypeInv, TypeOK, ObjectsKeep
  <1>3. d \in Deps[Source(n)]
    BY <1>1, <1>2 DEF Given, Source
  <1>4. PICK m \in Providers(n, d) : cache[m].st = "installed"
    BY <1>3 DEF DependenciesReady
  <1>5. m \in Names /\ NsOf[m] = NsOf[n] /\ cache[m] # None /\ cache[m].spec.pn = d
    BY <1>4 DEF Providers
  <1>6. P[m] = d
    BY <1>5 DEF ObjectsKeep, Given
  <1>7. m \notin Deletable
    BY <1>5, <1>6 DEF Given
  <1>8. cache[m] \in Seen(m)
    BY DEF Seen
  <1>9. Served(m)
    BY <1>4, <1>5, <1>7, <1>8 DEF VersionsTrue
  <1> QED
    BY <1>5, <1>6, <1>9

LEMMA ReadyStep ==
    ASSUME DistinctReleases, Inv, Next, Inv', NEW S, NEW P, NEW D, Given(S, P, D), ObjectsKeep(S),
           VersionsTrue(P, D), WorkerReady(P, D)
    PROVE  VersionsTrue(P, D)' /\ WorkerReady(P, D)'
  <1>1. ASSUME NEW n \in Names, Ready(n, P, D) PROVE Ready(n, P, D)'
    BY <1>1, ReadyStays
  <1>2. ASSUME NEW n \in Names, NEW o \in Seen(n)', o # None, o.st = "installed", n \notin Deletable
        PROVE  Served(n)'
    <2>1. CASE o \in Seen(n)
      BY <1>2, <2>1, ServedStays DEF VersionsTrue
    <2>2. CASE o = pkg'[n]
      BY <1>2, <2>2 DEF Served, Inv, Consistent, InstalledHasRelease, HasState
    <2> QED
      BY <1>2, <2>1, <2>2, VersionsSeen
  <1>3. ASSUME NEW n \in Names, NEW o \in Seen(n)', o # None, o.st = "installing"
        PROVE  Ready(n, P, D)'
    <2>1. CASE o \in Seen(n)
      BY <1>1, <1>3, <2>1 DEF VersionsTrue
    <2>2. CASE o = pkg'[n] /\ pkg'[n] # pkg[n]
      <3>1. CASE pkg[n] # None /\ pkg[n].st = "installing"
        <4>1. pkg[n] \in Seen(n)
          BY DEF Seen
        <4> QED
          BY <1>1, <3>1, <4>1 DEF VersionsTrue
      <3>2. CASE w # None /\ w.n = n /\ w.pc \notin UninstallPcs /\ o = w.obj
        BY <1>1, <1>3, <3>2 DEF WorkerReady
      <3> QED
        BY <1>3, <2>2, <3>1, <3>2, ObjectsWritten
    <2>3. pkg[n] \in Seen(n)
      BY DEF Seen
    <2> QED
      BY <1>3, <2>1, <2>2, <2>3, VersionsSeen
  <1>4. ASSUME w' # None, w'.pc \notin UninstallPcs, w'.obj.st = "installing"
        PROVE  \E n \in Names : w'.n = n /\ Ready(n, P, D)'
    <2>1. CASE w # None /\ w.pc \notin UninstallPcs /\ w'.n = w.n /\ w.obj.st = "installing"
      <3>1. w.n \in Names
        BY <2>1 DEF Inv, TypeInv, TypeOK, Workers
      <3> DEFINE n == w.n
      <3>2. n \in Names /\ Ready(n, P, D) /\ w'.n = n
        BY <2>1, <3>1 DEF WorkerReady
      <3> HIDE DEF n
      <3> QED
        BY <1>1, <3>2
    <2>2. ASSUME NEW n \in Names, w'.n = n, cache[n] # None,
                 cache[n].st = "installing" \/ DependenciesReady(n)
          PROVE  \E m \in Names : w'.n = m /\ Ready(m, P, D)'
      <3>1. cache[n] \in Seen(n)
        BY DEF Seen
      <3>2. Ready(n, P, D)
        BY <2>2, <3>1, FoundReady DEF VersionsTrue
      <3> QED
        BY <1>1, <2>2, <3>2
    <2> QED
      BY <1>4, <2>1, <2>2, ComesToInstalling
  <1>5. WorkerReady(P, D)'
    BY <1>4 DEF WorkerReady, Ready
  <1> QED
    BY <1>2, <1>3, <1>5 DEF VersionsTrue

\* A release comes, or comes to another source, by the installation in progress.
LEMMA SourcesKept ==
    ASSUME DistinctReleases, Inv, Next, NEW n \in Names, rel'[RelOf[n]] # None,
           rel[RelOf[n]] = None \/ rel[RelOf[n]].src # rel'[RelOf[n]].src
    PROVE  Installing /\ w.n = n /\ rel'[RelOf[n]].src = w.src
  <1> DEFINE r == rel[RelOf[w.n]]
             Q == Installing /\ w.n = n /\ rel'[RelOf[n]].src = w.src
  <1>1. rel \in [ReleaseNames -> Releases \cup {None}] /\ RelOf[n] \in ReleaseNames
    BY NamesAssumption DEF Inv, TypeInv, TypeOK
  <1>2. ~UNCHANGED rel
    OBVIOUS
  <1>3. ASSUME w \in Workers, NEW q, Put(q) PROVE w.n = n /\ rel'[RelOf[n]] = q /\ r = rel[RelOf[n]]
    <2>1. w.n \in Names /\ RelOf[w.n] \in ReleaseNames
      BY <1>3, NamesAssumption DEF Workers
    <2>2. RelOf[n] = RelOf[w.n]
      BY <1>1, <1>3, <2>1 DEF Put
    <2> QED
      BY <1>1, <1>3, <2>1, <2>2 DEF DistinctReleases, Put
  <1>4. ASSUME w \in Workers, Installing, NEW status, NEW ns, Put(Release(status, ns)) PROVE Q
    <2>1. Release(status, ns).src = w.src
      BY DEF Release
    <2> QED
      BY <1>3, <1>4, <2>1
  <1>5. w \in Workers => ~Put(None) /\ ~Put(r)
    BY <1>3
  <1>6. ASSUME w \in Workers, r # None PROVE ~Put([r EXCEPT !.status = "unfinished"])
    <2>1. r \in Releases
      BY <1>6, NamesAssumption DEF Inv, TypeInv, TypeOK, Workers
    <2>2. [r EXCEPT !.status = "unfinished"].src = r.src
      BY <2>1 DEF Releases
    <2> HIDE DEF r
    <2> QED
      BY <1>3, <1>6, <2>2
  <1>7. w # None => w \in Workers
    BY DEF Inv, TypeInv, TypeOK
  <1>8. ~User /\ ~BundleEvent /\ ~RunJob /\ ~Restart
    BY <1>2 DEF User, UserCreate, UserUpdate, UserDelete, UserWrite, ChangeBundle, BundleEvent,
           RunJob, Restart, helm
  <1>9. ASSUME NEW m \in Names, Deliver(m) \/ TimerFires(m) \/ Reconcile(m) PROVE FALSE
    BY <1>2, <1>9 DEF Deliver, TimerFires, Reconcile, GetFails, BeginUninstall, RejectDeleted,
           SaveUnresolved, ProcessInvalidNamespace, ProcessInitializing, ProcessUpdating,
           DependenciesUnknown, DependenciesReady, DependenciesWaiting, SourceChanged,
           CheckFails, ConfigChanged, NothingToDo, BeginInstall, Save, helm
  <1>10. ASSUME NEW q \in ReleaseNames, Drift(q) PROVE FALSE
    BY <1>1, <1>10 DEF Drift
  <1>11. ASSUME WorkerStep PROVE Q
    <2>1. w \in Workers /\ (InstallStep \/ UninstallStep \/ Commit \/ CommitFails)
      BY <1>11, WorkerSteps DEF Inv, TypeInv
    <2>2. ~UninstallStep /\ ~Commit /\ ~CommitFails
      BY <1>2, <1>5, <1>6, <2>1 DEF UninstallStep, NothingToUninstall, Uninstall, Unlist,
             UninstallFails, Commit, CommitFails, NoPut, helm
    <2>3. Installing
      BY <2>1, <2>2, InstallStepProceeds
    <2>4. Put(None) \/ Put(r) \/ \E status, ns : Put(Release(status, ns))
      BY <1>2, <2>1, <2>2 DEF InstallStep, InstallFails, PrepareRelease, CreateRelease,
             ReturnCreated, CreateReleaseFails, ReturnUndone, UpgradeRelease, ReturnUpgraded,
             UpgradeReleaseFails, NoPut
    <2> QED
      BY <1>4, <1>5, <2>1, <2>3, <2>4
  <1>12. ASSUME Crash PROVE Q
    <2>1. \/ (At("create") \/ At("install")) /\ \E ns : Put(Release("unfinished", ns))
          \/ At("uninstall") /\ r # None /\ Put([r EXCEPT !.status = "unfinished"])
      BY <1>2, <1>12 DEF Crash, NoPut
    <2> QED
      BY <1>4, <1>6, <1>7, <2>1 DEF At, Installing, InstallPcs
  <1> QED
    BY <1>8, <1>9, <1>10, <1>11, <1>12 DEF Next

\* If Packages keep to their package, its versions agree on the dependencies and what is
\* depended on is not deleted, a package is installed, or moved to another source, only
\* when all its dependencies are installed: neither an old version in the cache nor a
\* crash lets it overtake them (ProcessInstallingDependencies, ProcessInstalling).
THEOREM DependenciesComeFirst ==
    ASSUME DistinctReleases, NEW S, NEW P, NEW D, Given(S, P, D)
    PROVE  Spec => DependenciesFirst
  <1> DEFINE I == Inv /\ ObjectsKeep(S) /\ WorkerKeeps(S) /\ VersionsTrue(P, D) /\ WorkerReady(P, D)
             A == \A n \in Names :
                     LET r == rel'[RelOf[n]] IN
                     r # None /\ (rel[RelOf[n]] = None \/ rel[RelOf[n]].src # r.src) =>
                        \A d \in Deps[r.src] : \E m \in Names :
                           /\ NsOf[m] = NsOf[n] /\ pkg[m] # None /\ pkg[m].spec.pn = d
                           /\ rel[RelOf[m]] # None \/ RelOf[m] \in drifted
  <1>1. ASSUME Init PROVE I
    <2>1. \A n \in Names : pkg[n] = None /\ cache[n] = None /\ stream[n] = <<>>
      BY <1>1 DEF Init
    <2>2. \A n \in Names : Len(stream[n]) = 0
      BY <2>1
    <2>3. \A n \in Names : 1..Len(stream[n]) = {}
      BY <2>2
    <2>4. ObjectsKeep(S) /\ VersionsTrue(P, D)
      BY <2>1, <2>3 DEF ObjectsKeep, VersionsTrue, Seen
    <2>5. WorkerKeeps(S) /\ WorkerReady(P, D)
      BY <1>1 DEF Init, WorkerKeeps, WorkerReady
    <2> QED
      BY <1>1, <2>4, <2>5, ConsistentInductive
  <1>2. I /\ [Next]_vars => I'
    <2>1. ASSUME I, UNCHANGED vars
          PROVE  ObjectsKeep(S)' /\ WorkerKeeps(S)' /\ VersionsTrue(P, D)' /\ WorkerReady(P, D)'
      <3>1. ObjectsKeep(S)' /\ WorkerKeeps(S)'
        BY <2>1 DEF vars, ObjectsKeep, WorkerKeeps
      <3>2. \A n \in Names : Seen(n)' = Seen(n)
        BY <2>1 DEF vars, Seen
      <3>3. \A n \in Names : Served(n)' = Served(n)
        BY <2>1 DEF vars, Served
      <3>4. \A n : Ready(n, P, D)' = Ready(n, P, D)
        BY <3>3 DEF Ready
      <3>5. WorkerReady(P, D)'
        BY <2>1, <3>4 DEF vars, WorkerReady
      <3>6. VersionsTrue(P, D)'
        BY <2>1, <3>2, <3>3, <3>4 DEF VersionsTrue
      <3> QED
        BY <3>1, <3>5, <3>6
    <2>2. ASSUME I, Next, Inv'
          PROVE  ObjectsKeep(S)' /\ WorkerKeeps(S)' /\ VersionsTrue(P, D)' /\ WorkerReady(P, D)'
      BY <2>2, SpecsKept, ReadyStep DEF Given
    <2> QED
      BY <2>1, <2>2, ConsistentInductive
  <1>3. ASSUME I, Next PROVE A
    <2> SUFFICES ASSUME NEW n \in Names, rel'[RelOf[n]] # None,
                        rel[RelOf[n]] = None \/ rel[RelOf[n]].src # rel'[RelOf[n]].src,
                        NEW d \in Deps[rel'[RelOf[n]].src]
                 PROVE  \E m \in Names :
                           /\ NsOf[m] = NsOf[n] /\ pkg[m] # None /\ pkg[m].spec.pn = d
                           /\ rel[RelOf[m]] # None \/ RelOf[m] \in drifted
      OBVIOUS
    <2>1. Installing /\ w.n = n /\ rel'[RelOf[n]].src = w.src
      BY <1>3, SourcesKept
    <2>2. /\ w # None /\ w.pc \in InstallPcs /\ w.pc \notin UninstallPcs
          /\ w.src # None /\ w.obj.st = "installing"
      BY <1>3, <2>1 DEF Installing, InstallPcs, UninstallPcs, Inv, TypeInv, InstallReady, Consistent,
             WorkerConsistent
    <2>3. PICK b \in Bundles : w.src = Resolve(b, w.obj.spec)
      BY <1>3, <2>2 DEF WorkerKeeps
    <2>4. w.obj.spec \in S[n]
      BY <1>3, <2>1, <2>2 DEF WorkerKeeps
    <2>5. d \in D[n]
      BY <2>1, <2>2, <2>3, <2>4 DEF Given
    <2>6. PICK m \in Names : NsOf[m] = NsOf[n] /\ P[m] = d /\ Served(m)
      BY <1>3, <2>1, <2>2, <2>5 DEF WorkerReady, Ready
    <2>7. pkg[m] # None /\ pkg[m].spec.pn = d
      BY <1>3, <2>6 DEF Served, ObjectsKeep, Given
    <2> QED
      BY <2>6, <2>7 DEF Served
  <1>4. I /\ [Next]_vars => [A]_vars
    BY <1>3
  <1>5. [][A]_vars => DependenciesFirst
    BY PTL DEF DependenciesFirst
  <1> HIDE DEF I, A
  <1> QED
    BY <1>1, <1>2, <1>4, <1>5, PTL DEF Spec
=============================================================================
