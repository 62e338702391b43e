------------------------ MODULE PackageLifecycleProofs ------------------------
(***************************************************************************)
(* Proofs about PackageLifecycle, for every set of Packages, bundles and   *)
(* configurations and every bound.                                         *)
(***************************************************************************)
EXTENDS PackageLifecycle, SequenceTheorems, TLAPS

\* The source a cached object resolves to.
LEMMA SourceType ==
    ASSUME TypeOK, NEW n \in Names, cache[n] # None
    PROVE  cache[n] \in Objects /\ Source(n) \in Sources \cup {None}
  <1>1. cache[n] \in Objects
    BY DEF TypeOK
  <1>2. cache[n].spec \in Specs
    BY <1>1 DEF Objects
  <1> QED
    BY <1>1, <1>2, CatalogAssumption DEF TypeOK, Source, Resolve, Specs

\* The copy a reconciliation holds is well typed.
LEMMA HoldType ==
    ASSUME NEW pc \in Pcs, NEW n \in Names, NEW o \in Objects \cup {None},
           NEW s \in Sources \cup {None}, NEW again \in BOOLEAN, Hold(pc, n, o, s, again)
    PROVE  w' \in Workers
  <1>1. (stream[n] = <<>>) \in BOOLEAN
    OBVIOUS
  <1> QED
    BY <1>1 DEF Hold, Workers

\* Writing objects keeps the API server and the watch stream well typed.
LEMMA WriteType ==
    ASSUME TypeOK, NEW K \in SUBSET Names, NEW new \in [K -> Objects \cup {None}], Write(K, new)
    PROVE  /\ pkg' \in [Names -> Objects \cup {None}]
           /\ stream' \in [Names -> Seq(Objects \cup {None})]
  BY DEF Write, TypeOK

LEMMA NewObjectType ==
    ASSUME NEW spec \in Specs
    PROVE  NewObject(spec) \in Objects
  BY DEF NewObject, Objects, States, Details

LEMMA UserWriteType ==
    ASSUME TypeOK, NEW n \in Names, NEW o \in Objects \cup {None}, UserWrite(n, o)
    PROVE  TypeOK'
  <1> DEFINE new == [m \in {n} |-> o]
  <1>1. new \in [{n} -> Objects \cup {None}] /\ {n} \in SUBSET Names
    OBVIOUS
  <1>2. Write({n}, new)
    BY DEF UserWrite
  <1>3. /\ pkg' \in [Names -> Objects \cup {None}]
        /\ stream' \in [Names -> Seq(Objects \cup {None})]
    BY <1>1, <1>2, WriteType
  <1>4. w' \in Workers \cup {None}
    BY DEF UserWrite, Outdate, TypeOK, Workers
  <1>5. edits' \in Nat
    BY DEF UserWrite, TypeOK
  <1> QED
    BY <1>3, <1>4, <1>5 DEF UserWrite, TypeOK, helm

\* A reconciliation that only prepares a status update.
LEMMA SaveType ==
    ASSUME TypeOK, NEW n \in Names, Take(n), cache[n] # None,
           NEW o \in Objects, NEW again \in BOOLEAN, Save(n, o, again), faults' \in Nat
    PROVE  TypeOK'
  <1>1. w' \in Workers
    BY SourceType, HoldType DEF Save, Pcs
  <1> QED
    BY <1>1 DEF Save, Take, TypeOK, helm

\* What a step of the worker on a release writes is well typed.
LEMMA PutType ==
    ASSUME TypeOK, w \in Workers, NEW r \in Releases \cup {None}, Put(r)
    PROVE  /\ rel' \in [ReleaseNames -> Releases \cup {None}]
           /\ drifted' \subseteq ReleaseNames
  BY NamesAssumption DEF Put, TypeOK, Workers

LEMMA ReleaseType ==
    ASSUME TypeOK, w \in Workers, w.obj # None, w.src # None,
           NEW status \in {"deployed", "failed", "unfinished"}, NEW ns \in Namespaces
    PROVE  /\ Release(status, ns) \in Releases
           /\ EffNs(w.obj.spec, w.src) \in Namespaces
  BY CatalogAssumption DEF Workers, Objects, Specs, Release, Releases, EffNs

LEMMA ConfigMapType ==
    ASSUME TypeOK, NEW n \in Names, NEW ns \in Namespaces
    PROVE  /\ AddToConfigMap(n, ns) \subseteq Namespaces \X (ReleaseNames \cup {None})
           /\ DelFromConfigMap(n, ns) \subseteq Namespaces \X (ReleaseNames \cup {None})
  BY NamesAssumption DEF AddToConfigMap, DelFromConfigMap, TypeOK

\* The parts of helmDriver.Install, which hold a copy of the object and a source, and
\* those of Uninstall, the second of which knows where the release was.
InstallPcs == {"install", "create", "created", "upgraded", "undo"}
InstallReady ==
    w # None => /\ w.pc \in InstallPcs => w.obj # None /\ w.src # None
                /\ w.pc \notin {"uninstall", "unlist"} => w.obj # None
                /\ w.pc = "unlist" => w.ns # None

TypeInv == TypeOK /\ InstallReady

Installing == up /\ w # None /\ w.pc \in InstallPcs

InstallStep ==
    \/ InstallFails \/ PrepareRelease \/ CreateRelease \/ ReturnCreated
    \/ CreateReleaseFails \/ ReturnUndone
    \/ UpgradeRelease \/ ReturnUpgraded \/ UpgradeReleaseFails
UninstallStep == NothingToUninstall \/ Uninstall \/ Unlist \/ UninstallFails

\* A step of Install goes on to the next part or returns.
Proceeds ==
    \/ \E pc \in InstallPcs : Goto(pc)
    \/ Return(Installed(w.obj)) \/ Return(Failed(w.obj))

LEMMA WorkerSteps ==
    ASSUME TypeOK, WorkerStep
    PROVE  /\ w \in Workers /\ w # None /\ up
           /\ InstallStep \/ UninstallStep \/ Commit \/ CommitFails
  <1>1. up /\ w # None
    BY DEF WorkerStep, InstallFails, PrepareRelease, CreateRelease, ReturnCreated,
           CreateReleaseFails, ReturnUndone, UpgradeRelease, ReturnUpgraded,
           UpgradeReleaseFails, NothingToUninstall, Uninstall, Unlist, UninstallFails, Commit,
           CommitFails, At
  <1>2. w \in Workers
    BY <1>1 DEF TypeOK
  <1> QED
    BY <1>1, <1>2 DEF WorkerStep, InstallStep, UninstallStep

LEMMA InstallStepProceeds ==
    ASSUME InstallStep
    PROVE  Installing /\ Proceeds
  <1>1. Installing
    BY DEF InstallStep, InstallFails, PrepareRelease, CreateRelease, ReturnCreated,
           CreateReleaseFails, ReturnUndone, UpgradeRelease, ReturnUpgraded,
           UpgradeReleaseFails, At, Installing, InstallPcs
  <1>2. Proceeds
    BY DEF InstallStep, InstallFails, PrepareRelease, CreateRelease, ReturnCreated,
           CreateReleaseFails, ReturnUndone, UpgradeRelease, ReturnUpgraded,
           UpgradeReleaseFails, Proceeds, InstallPcs
  <1> QED
    BY <1>1, <1>2

\* What Install works with.
LEMMA InstallTypes ==
    ASSUME TypeInv, Installing
    PROVE  /\ w \in Workers /\ w.n \in Names /\ w.obj \in Objects /\ w.src \in Sources
           /\ TargetNs \in Namespaces
           /\ Installed(w.obj) \in Objects /\ Failed(w.obj) \in Objects
           /\ Installed(w.obj).st = "installed" /\ Failed(w.obj).st = w.obj.st
           /\ Installed(w.obj).spec = w.obj.spec /\ Failed(w.obj).spec = w.obj.spec
           /\ \A status \in {"deployed", "failed", "unfinished"} :
                 /\ Release(status, TargetNs) \in Releases
                 /\ rel[RelOf[w.n]] # None =>
                       Release(status, rel[RelOf[w.n]].ns) \in Releases
  <1>1. w \in Workers /\ w.obj # None /\ w.src # None
    BY DEF TypeInv, TypeOK, InstallReady, Installing
  <1>2. w.n \in Names /\ w.obj \in Objects /\ w.src \in Sources
    BY <1>1 DEF Workers
  <1>3. TargetNs \in Namespaces
    BY <1>2, CatalogAssumption DEF TargetNs, EffNs, Objects, Specs
  <1>4. rel[RelOf[w.n]] # None => rel[RelOf[w.n]].ns \in Namespaces
    BY <1>2, NamesAssumption DEF TypeInv, TypeOK, Releases
  <1>5. /\ Installed(w.obj) \in Objects /\ Failed(w.obj) \in Objects
        /\ Installed(w.obj).st = "installed" /\ Failed(w.obj).st = w.obj.st
        /\ Installed(w.obj).spec = w.obj.spec /\ Failed(w.obj).spec = w.obj.spec
    BY <1>2 DEF Installed, Failed, Objects, Specs, States, Details
  <1>6. \A status \in {"deployed", "failed", "unfinished"} :
           /\ Release(status, TargetNs) \in Releases
           /\ rel[RelOf[w.n]] # None => Release(status, rel[RelOf[w.n]].ns) \in Releases
    BY <1>1, <1>3, <1>4, ReleaseType DEF TypeInv
  <1> QED
    BY <1>1, <1>2, <1>3, <1>5, <1>6

\* One user action: a write by the user, or another active bundle.
LEMMA UserTypeStep ==
    ASSUME TypeInv, User
    PROVE  TypeInv'
  <1> USE DEF TypeInv
  <1> DEFINE WorkerKept == w' = w \/ \E n \in Names : Outdate(n)
  <1>1. ASSUME NEW n \in Names, NEW spec \in Wanted[n], UserCreate(n, spec)
        PROVE  TypeOK' /\ WorkerKept
    <2>1. spec \in Specs
      BY CatalogAssumption
    <2> QED
      BY <1>1, <2>1, NewObjectType, UserWriteType DEF UserCreate, UserWrite
  <1>2. ASSUME NEW n \in Names, NEW spec \in Wanted[n], UserUpdate(n, spec)
        PROVE  TypeOK' /\ WorkerKept
    <2>1. spec \in Specs /\ pkg[n] \in Objects
      BY <1>2, CatalogAssumption DEF UserUpdate, TypeOK
    <2>2. [pkg[n] EXCEPT !.spec = spec] \in Objects
      BY <2>1 DEF Objects
    <2> QED
      BY <1>2, <2>2, UserWriteType DEF UserUpdate, UserWrite
  <1>3. ASSUME NEW n \in Names, UserDelete(n)
        PROVE  TypeOK' /\ WorkerKept
    BY <1>3, UserWriteType DEF UserDelete, UserWrite
  <1>4. ASSUME NEW b \in Bundles \cup {None}, ChangeBundle(b)
        PROVE  TypeOK' /\ WorkerKept
    BY <1>4 DEF ChangeBundle, TypeOK, helm
  <1>5. TypeOK' /\ WorkerKept
    BY <1>1, <1>2, <1>3, <1>4 DEF User
  <1>6. InstallReady'
    <2>1. CASE w' = w
      BY <2>1 DEF InstallReady
    <2>2. ASSUME NEW n \in Names, Outdate(n), w \in Workers
          PROVE  InstallReady'
      BY <2>2 DEF Outdate, InstallReady, Workers
    <2>3. ASSUME NEW n \in Names, Outdate(n), w = None
          PROVE  InstallReady'
      BY <2>3 DEF Outdate, InstallReady
    <2> QED
      BY <1>5, <2>1, <2>2, <2>3 DEF TypeOK
  <1> QED
    BY <1>5, <1>6

\* The first half of a reconciliation.
LEMMA ReconcileTypeStep ==
    ASSUME TypeInv, NEW n \in Names, Reconcile(n)
    PROVE  TypeInv'
  <1> USE DEF TypeInv
  <1> DEFINE o == cache[n]
  <1>t. Take(n)
    BY DEF Reconcile, GetFails, BeginUninstall, RejectDeleted, SaveUnresolved,
           ProcessInvalidNamespace, ProcessInitializing, ProcessUpdating,
           DependenciesUnknown, DependenciesReady, DependenciesWaiting, SourceChanged,
           CheckFails, ConfigChanged, NothingToDo, BeginInstall
  <1>f. (Fault \/ UNCHANGED faults) => faults' \in Nat
    BY DEF Fault, TypeOK
  <1>s. ASSUME NEW x \in Objects, NEW again \in BOOLEAN, o # None, Save(n, x, again),
               faults' \in Nat
        PROVE  TypeInv'
    <2>1. TypeOK'
      BY <1>t, <1>s, SaveType
    <2>2. w'.obj = x /\ w'.pc = "commit"
      BY <1>s DEF Save, Hold
    <2> QED
      BY <2>1, <2>2, NoneAssumption DEF InstallReady, InstallPcs
  <1>o. ASSUME o # None
        PROVE  o \in Objects /\ o.spec \in Specs /\ Source(n) \in Sources \cup {None}
    BY <1>o, SourceType DEF Objects
  <1>1. CASE GetFails(n)
    BY <1>1 DEF GetFails, Take, Fault, TypeOK, InstallReady, helm
  <1>2. CASE BeginUninstall(n)
    <2>1. w' \in Workers
      BY <1>2, HoldType DEF BeginUninstall, Pcs
    <2>2. w'.pc = "uninstall"
      BY <1>2 DEF BeginUninstall, Hold
    <2> QED
      BY <1>2, <2>1, <2>2 DEF BeginUninstall, Take, TypeOK, InstallReady, InstallPcs, helm
  <1>3. CASE RejectDeleted(n)
    BY <1>3 DEF RejectDeleted, Take, TypeOK, InstallReady, helm
  <1>4. CASE SaveUnresolved(n)
    <2>1. [o EXCEPT !.detail = "error"] \in Objects
      BY <1>4, <1>o DEF SaveUnresolved, Objects, Details
    <2> QED
      BY <1>4, <1>f, <1>s, <2>1 DEF SaveUnresolved
  <1>5. CASE ProcessInvalidNamespace(n)
    <2>1. [o EXCEPT !.detail = "bad namespace", !.st = "unknown"] \in Objects
      BY <1>5, <1>o DEF ProcessInvalidNamespace, Objects, Details, States
    <2>2. CASE o.st = "unknown"
      BY <1>5, <2>2 DEF ProcessInvalidNamespace, Take, TypeOK, InstallReady, helm
    <2>3. CASE o.st # "unknown"
      BY <1>5, <1>f, <1>s, <2>1, <2>3 DEF ProcessInvalidNamespace
    <2> QED
      BY <2>2, <2>3
  <1>6. CASE ProcessInitializing(n)
    <2>1. [o EXCEPT !.src = Source(n), !.st = "installing dependencies",
                    !.stns = o.spec.tns] \in Objects
      BY <1>6, <1>o DEF ProcessInitializing, InState, Objects, Specs, States
    <2> QED
      BY <1>6, <1>f, <1>s, <2>1 DEF ProcessInitializing, InState
  <1>7. CASE ProcessUpdating(n)
    <2>1. [o EXCEPT !.st = "installing dependencies"] \in Objects
      BY <1>7, <1>o DEF ProcessUpdating, InState, Objects, States
    <2> QED
      BY <1>7, <1>f, <1>s, <2>1 DEF ProcessUpdating, InState
  <1>8. CASE DependenciesUnknown(n)
    <2>1. [o EXCEPT !.detail = "error"] \in Objects
      BY <1>8, <1>o DEF DependenciesUnknown, InState, Objects, Details
    <2> QED
      BY <1>8, <1>f, <1>s, <2>1 DEF DependenciesUnknown, InState
  <1>9. CASE DependenciesReady(n)
    <2>1. [o EXCEPT !.st = "installing", !.detail = ""] \in Objects
      BY <1>9, <1>o DEF DependenciesReady, InState, Objects, States, Details
    <2> QED
      BY <1>9, <1>f, <1>s, <2>1 DEF DependenciesReady, InState
  <1>10. CASE DependenciesWaiting(n)
    <2>1. PICK D \in SUBSET Creatable(n) :
             /\ (Fault \/ UNCHANGED faults)
             /\ Write({DepKey[n][d] : d \in D},
                      [m \in {DepKey[n][d] : d \in D} |->
                         NewObject(DepSpec(n, CHOOSE d \in D : DepKey[n][d] = m))])
      BY <1>10 DEF DependenciesWaiting
    <2> DEFINE K == {DepKey[n][d] : d \in D}
               new == [m \in K |-> NewObject(DepSpec(n, CHOOSE d \in D : DepKey[n][d] = m))]
    <2>2. o # None /\ Source(n) \in Sources
      BY <1>10, <1>o DEF DependenciesWaiting, InState
    <2>3. D \subseteq PackageNames
      BY <2>2, CatalogAssumption DEF Creatable, Missing
    <2>4. K \in SUBSET Names
      BY <2>3, NamesAssumption
    <2>5. ASSUME NEW m \in K PROVE new[m] \in Objects \cup {None}
      <3>1. (CHOOSE d \in D : DepKey[n][d] = m) \in PackageNames
        BY <2>3
      <3>2. DepSpec(n, CHOOSE d \in D : DepKey[n][d] = m) \in Specs
        BY <3>1, <2>2, <1>o, CatalogAssumption DEF DepSpec, Specs
      <3> QED
        BY <3>2, NewObjectType
    <2>6. new \in [K -> Objects \cup {None}]
      BY <2>5
    <2>7. /\ pkg' \in [Names -> Objects \cup {None}]
          /\ stream' \in [Names -> Seq(Objects \cup {None})]
      BY <2>1, <2>4, <2>6, WriteType
    <2>8. [o EXCEPT !.detail = "waiting"] \in Objects
      BY <2>2, <1>o DEF Objects, Details
    <2>9. w' \in Workers /\ w'.obj # None /\ w'.pc = "commit"
      <3>1. Hold("commit", n, [o EXCEPT !.detail = "waiting"], Source(n), TRUE)
        BY <1>10 DEF DependenciesWaiting
      <3>2. w' \in Workers
        BY <3>1, <2>2, <2>8, HoldType DEF Pcs
      <3> QED
        BY <3>1, <3>2, <2>8, NoneAssumption DEF Hold
    <2> QED
      BY <1>10, <1>t, <1>f, <2>1, <2>7, <2>9
      DEF DependenciesWaiting, Take, TypeOK, InstallReady, InstallPcs, helm
  <1>11. CASE SourceChanged(n)
    <2>1. [o EXCEPT !.src = Source(n), !.st = "updating"] \in Objects
      BY <1>11, <1>o DEF SourceChanged, InState, Objects, States
    <2> QED
      BY <1>11, <1>f, <1>s, <2>1 DEF SourceChanged, InState
  <1>12. CASE CheckFails(n)
    <2>1. [o EXCEPT !.detail = "error"] \in Objects
      BY <1>12, <1>o DEF CheckFails, Checkable, InState, Objects, Details
    <2> QED
      BY <1>12, <1>f, <1>s, <2>1 DEF CheckFails, Checkable, InState
  <1>13. CASE ConfigChanged(n)
    <2>1. [o EXCEPT !.st = "updating", !.stns = o.spec.tns] \in Objects
      BY <1>13, <1>o DEF ConfigChanged, Checkable, InState, Objects, Specs, States
    <2> QED
      BY <1>13, <1>f, <1>s, <2>1 DEF ConfigChanged, Checkable, InState
  <1>14. CASE NothingToDo(n)
    BY <1>14 DEF NothingToDo, Take, TypeOK, InstallReady, helm
  <1>15. CASE BeginInstall(n)
    <2>1. o # None /\ Source(n) \in Sources
      BY <1>15, <1>o DEF BeginInstall, InState
    <2>2. [o EXCEPT !.src = Source(n)] \in Objects
      BY <2>1, <1>o DEF Objects
    <2>3. Hold("install", n, [o EXCEPT !.src = Source(n)], Source(n), TRUE)
      BY <1>15 DEF BeginInstall
    <2>4. w' \in Workers
      BY <2>1, <2>2, <2>3, HoldType DEF Pcs
    <2>5. w'.obj # None /\ w'.src # None /\ w'.pc = "install"
      BY <2>1, <2>2, <2>3, NoneAssumption DEF Hold
    <2> QED
      BY <1>15, <2>4, <2>5 DEF BeginInstall, Take, TypeOK, InstallReady, helm
  <1> QED
    BY <1>1, <1>2, <1>3, <1>4, <1>5, <1>6, <1>7, <1>8, <1>9, <1>10, <1>11, <1>12, <1>13,
       <1>14, <1>15 DEF Reconcile

\* The worker after a step of Install.
LEMMA ProceedType ==
    ASSUME TypeInv, Installing, Proceeds
    PROVE  w' \in Workers /\ InstallReady'
  <1>1. /\ w \in Workers /\ w.obj \in Objects /\ w.src \in Sources
        /\ Installed(w.obj) \in Objects /\ Failed(w.obj) \in Objects
    BY InstallTypes
  <1>2. ASSUME NEW pc \in InstallPcs, Goto(pc) PROVE w' \in Workers /\ InstallReady'
    <2>1. w' \in Workers
      BY <1>1, <1>2 DEF Goto, Workers, Pcs, InstallPcs
    <2>2. w'.pc = pc /\ w'.obj = w.obj /\ w'.src = w.src
      BY <1>1, <1>2 DEF Goto, Workers
    <2> QED
      BY <1>1, <2>1, <2>2, NoneAssumption DEF InstallReady, InstallPcs
  <1>3. ASSUME NEW x \in Objects, Return(x) PROVE w' \in Workers /\ InstallReady'
    <2>1. w' \in Workers /\ w'.pc = "commit" /\ w'.obj = x
      BY <1>1, <1>3 DEF Return, Workers, Pcs
    <2> QED
      BY <2>1, NoneAssumption DEF InstallReady, InstallPcs
  <1> QED
    BY <1>1, <1>2, <1>3 DEF Proceeds

\* The second half: helm and the status update.
LEMMA WorkerTypeStep ==
    ASSUME TypeInv, WorkerStep
    PROVE  TypeInv'
  <1> USE DEF TypeInv
  <1>w. w \in Workers /\ w # None
    BY WorkerSteps
  <1>n. w.n \in Names /\ RelOf[w.n] \in ReleaseNames
    BY <1>w, NamesAssumption DEF Workers
  <1>f. (Fault \/ UNCHANGED faults) => faults' \in Nat
    BY DEF Fault, TypeOK
  <1> DEFINE r == rel[RelOf[w.n]]
             Entries == Namespaces \X (ReleaseNames \cup {None})
             Puts == /\ rel' \in [ReleaseNames -> Releases \cup {None}]
                     /\ drifted' \subseteq ReleaseNames
  <1>r. r \in Releases \cup {None}
    BY <1>n DEF TypeOK
  <1>e. r # None => r.ns \in Namespaces
    BY <1>r DEF Releases
  <1>u. NoPut => Puts
    BY DEF NoPut, TypeOK
  <1>j. job' \in {job, WithJob} => job' \in BOOLEAN
    BY DEF WithJob, TypeOK
  <1>b. ASSUME Installing, Proceeds, Puts, nsmap' \subseteq Entries, job' \in {job, WithJob},
               Fault \/ UNCHANGED faults
        PROVE  TypeInv'
    <2>1. w' \in Workers /\ InstallReady'
      BY <1>b, ProceedType
    <2>2. UNCHANGED <<pkg, cache, stream, queue, timers, secretNs, bundle, up, edits, crashes>>
      BY <1>b DEF Proceeds, Goto, Return
    <2> QED
      BY <1>b, <1>f, <1>j, <2>1, <2>2 DEF TypeOK
  <1>g. ASSUME Installing, Register
        PROVE  nsmap' \subseteq Entries /\ job' \in {job, WithJob} /\ (Fault \/ UNCHANGED faults)
    <2>1. AddToConfigMap(w.n, TargetNs) \subseteq Entries
      BY <1>g, <1>n, InstallTypes, ConfigMapType
    <2> QED
      BY <1>g, <2>1 DEF Register, TypeOK
  <1>i. ASSUME InstallStep PROVE TypeInv'
    <2>0. Installing /\ Proceeds
      BY <1>i, InstallStepProceeds
    <2>t. \A status \in {"deployed", "failed", "unfinished"} :
             /\ Release(status, TargetNs) \in Releases
             /\ r # None => Release(status, r.ns) \in Releases
      BY <2>0, InstallTypes
    <2>1. CASE InstallFails
      BY <1>b, <1>u, <2>0, <2>1 DEF InstallFails, TypeOK
    <2>2. CASE PrepareRelease \/ ReturnUpgraded
      BY <1>b, <1>g, <1>u, <2>0, <2>2 DEF PrepareRelease, ReturnUpgraded
    <2>3. CASE CreateRelease
      <3>1. Puts
        BY <1>w, <2>t, <2>3, PutType DEF CreateRelease
      <3> QED
        BY <1>b, <2>0, <2>3, <3>1 DEF CreateRelease, TypeOK
    <2>4. CASE ReturnCreated
      BY <1>b, <1>u, <2>0, <2>4 DEF ReturnCreated, TypeOK
    <2>5. CASE CreateReleaseFails
      <3>1. Puts
        BY <1>w, <2>t, <2>5, PutType DEF CreateReleaseFails
      <3> QED
        BY <1>b, <2>0, <2>5, <3>1 DEF CreateReleaseFails, TypeOK
    <2>6. CASE ReturnUndone
      <3>1. DelFromConfigMap(w.n, TargetNs) \subseteq Entries
        BY <2>0, <1>n, InstallTypes, ConfigMapType
      <3> QED
        BY <1>b, <1>u, <2>0, <2>6, <3>1 DEF ReturnUndone, TypeOK
    <2>7. CASE UpgradeRelease
      <3>1. Puts
        BY <1>w, <2>t, <2>7, PutType DEF UpgradeRelease
      <3> QED
        BY <1>b, <2>0, <2>7, <3>1 DEF UpgradeRelease, TypeOK
    <2>8. CASE UpgradeReleaseFails
      <3>1. Puts
        BY <1>w, <1>r, <1>u, <2>t, <2>8, PutType DEF UpgradeReleaseFails
      <3> QED
        BY <1>b, <2>0, <2>8, <3>1 DEF UpgradeReleaseFails, TypeOK
    <2> QED
      BY <1>i, <2>1, <2>2, <2>3, <2>4, <2>5, <2>6, <2>7, <2>8 DEF InstallStep
  <1>5. CASE NothingToUninstall
    BY <1>5 DEF NothingToUninstall, Finish, TypeOK, InstallReady, helm
  <1>6. CASE Uninstall
    <2>1. Puts
      BY <1>6, <1>w, PutType DEF Uninstall
    <2>2. w' \in Workers /\ w'.pc = "unlist" /\ w'.ns # None
      BY <1>6, <1>w, <1>e, NoneAssumption DEF Uninstall, Workers, Pcs
    <2> QED
      BY <1>6, <2>1, <2>2 DEF Uninstall, TypeOK, InstallReady, InstallPcs
  <1>7. CASE Unlist
    <2>1. w.ns \in Namespaces
      BY <1>7, <1>w DEF Unlist, At, InstallReady, Workers
    <2>2. nsmap' \subseteq Entries
      BY <1>7, <1>n, <2>1, ConfigMapType DEF Unlist, TypeOK
    <2>3. w' = None /\ timers' = timers /\ faults' \in Nat
      BY <1>7, <1>f DEF Unlist, Finish
    <2> QED
      BY <1>7, <1>u, <2>2, <2>3 DEF Unlist, TypeOK, InstallReady
  <1>8. CASE UninstallFails
    <2>1. r # None => [r EXCEPT !.status = "unfinished"] \in Releases
      BY <1>r DEF Releases
    <2>2. Puts
      BY <1>8, <1>w, <1>r, <2>1, PutType DEF UninstallFails
    <2>3. w' = None /\ timers' \subseteq Names /\ faults' \in Nat
      BY <1>8, <1>f, <1>n DEF UninstallFails, Finish, TypeOK
    <2> QED
      BY <1>8, <2>2, <2>3 DEF UninstallFails, TypeOK, InstallReady
  <1>9. CASE Commit
    <2>1. w' = None /\ timers' \subseteq Names
      BY <1>9, <1>n DEF Commit, Finish, TypeOK
    <2>2. /\ pkg' \in [Names -> Objects \cup {None}]
          /\ stream' \in [Names -> Seq(Objects \cup {None})]
      <3> DEFINE new == [m \in {w.n} |-> w.obj]
      <3>1. new \in [{w.n} -> Objects \cup {None}] /\ {w.n} \in SUBSET Names
        BY <1>w, <1>n DEF Workers
      <3>2. Write({w.n}, new) \/ UNCHANGED <<pkg, stream>>
        BY <1>9 DEF Commit
      <3> QED
        BY <3>1, <3>2, WriteType DEF TypeOK
    <2> QED
      BY <1>9, <2>1, <2>2 DEF Commit, TypeOK, InstallReady, helm
  <1>10. CASE CommitFails
    <2>1. w' = None /\ timers' \subseteq Names /\ faults' \in Nat
      BY <1>10, <1>n, <1>f DEF CommitFails, Finish, TypeOK
    <2> QED
      BY <1>10, <2>1 DEF CommitFails, TypeOK, InstallReady, helm
  <1> QED
    BY <1>i, <1>5, <1>6, <1>7, <1>8, <1>9, <1>10, WorkerSteps DEF UninstallStep

\* What a crash leaves of the releases: all of them as they were, or that of the running
\* operation unfinished.
LEMMA CrashLeaves ==
    ASSUME TypeInv, Crash
    PROVE  \/ UNCHANGED <<rel, drifted>>
           \/ /\ w \in Workers /\ (w.pc \in InstallPcs \/ rel[RelOf[w.n]] # None)
              /\ w.pc \in {"install", "create", "uninstall"}
              /\ \E q \in Releases : Put(q)
  <1> DEFINE r == rel[RelOf[w.n]]
  <1>1. \/ NoPut
        \/ At("create") /\ Put(Release("unfinished", TargetNs))
        \/ At("install") /\ r # None /\ Put(Release("unfinished", r.ns))
        \/ At("uninstall") /\ r # None /\ Put([r EXCEPT !.status = "unfinished"])
    BY DEF Crash
  <1>2. ASSUME At("create") \/ At("install")
        PROVE  /\ w \in Workers /\ w.pc \in InstallPcs /\ w.pc \in {"install", "create"}
               /\ Release("unfinished", TargetNs) \in Releases
               /\ r # None => Release("unfinished", r.ns) \in Releases
    <2>1. Installing
      BY <1>2 DEF At, Installing, InstallPcs
    <2> QED
      BY <1>2, <2>1, InstallTypes DEF At, InstallPcs
  <1>3. ASSUME At("uninstall"), r # None
        PROVE  w \in Workers /\ [r EXCEPT !.status = "unfinished"] \in Releases
    <2>1. w \in Workers
      BY <1>3 DEF At, TypeInv, TypeOK
    <2>2. r \in Releases
      BY <1>3, <2>1, NamesAssumption DEF Workers, TypeInv, TypeOK
    <2> QED
      BY <2>1, <2>2 DEF Releases
  <1>4. CASE NoPut
    BY <1>4 DEF NoPut
  <1>5. CASE At("create") /\ Put(Release("unfinished", TargetNs))
    BY <1>2, <1>5
  <1>6. CASE At("install") /\ r # None /\ Put(Release("unfinished", r.ns))
    BY <1>2, <1>6
  <1>7. CASE At("uninstall") /\ r # None /\ Put([r EXCEPT !.status = "unfinished"])
    BY <1>3, <1>7 DEF At
  <1> QED
    BY <1>1, <1>4, <1>5, <1>6, <1>7

\* The invariant holds at the start and every step keeps it.
LEMMA TypeInductive ==
    /\ Init => TypeInv
    /\ TypeInv /\ [Next]_vars => TypeInv'
  <1>1. ASSUME Init PROVE TypeInv
    <2>1. /\ pkg \in [Names -> Objects \cup {None}] /\ cache \in [Names -> Objects \cup {None}]
          /\ stream \in [Names -> Seq(Objects \cup {None})]
          /\ rel \in [ReleaseNames -> Releases \cup {None}]
      BY <1>1 DEF Init
    <2>2. job \in BOOLEAN /\ up \in BOOLEAN
      BY <1>1 DEF Init
    <2>3. nsmap \subseteq Namespaces \X (ReleaseNames \cup {None})
      BY <1>1, ClusterAssumption DEF Init, PlaceholderEntries
    <2> QED
      BY <1>1, <2>1, <2>2, <2>3 DEF Init, TypeInv, TypeOK, InstallReady
  <1>2. ASSUME TypeInv, [Next]_vars PROVE TypeInv'
    <2> USE <1>2 DEF TypeInv
    <2>1. CASE User
      BY <2>1, UserTypeStep
    <2>2. ASSUME NEW n \in Names, Deliver(n) PROVE TypeInv'
      <3>1. Head(stream[n]) \in Objects \cup {None} /\ Tail(stream[n]) \in Seq(Objects \cup {None})
        BY <2>2, HeadTailProperties DEF Deliver, TypeOK
      <3> QED
        BY <2>2, <3>1 DEF Deliver, TypeOK, InstallReady, helm
    <2>3. ASSUME NEW n \in Names, TimerFires(n) PROVE TypeInv'
      BY <2>3 DEF TimerFires, TypeOK, InstallReady, helm
    <2>4. ASSUME NEW n \in Names, Reconcile(n) PROVE TypeInv'
      BY <2>4, ReconcileTypeStep
    <2>5. CASE BundleEvent
      BY <2>5 DEF BundleEvent, TypeOK, InstallReady, helm
    <2>6. CASE WorkerStep
      BY <2>6, WorkerTypeStep
    <2>7. CASE RunJob
      <3>1. secretNs' \subseteq Namespaces
        BY <2>7 DEF RunJob, TypeOK
      <3>2. job' \in BOOLEAN
        BY <2>7 DEF RunJob
      <3> QED
        BY <2>7, <3>1, <3>2 DEF RunJob, TypeOK, InstallReady
    <2>8. CASE Crash
      <3> DEFINE Puts == /\ rel' \in [ReleaseNames -> Releases \cup {None}]
                         /\ drifted' \subseteq ReleaseNames
      <3>1. /\ up' = FALSE /\ w' = None /\ queue' = {} /\ timers' = {} /\ crashes' = crashes + 1
            /\ UNCHANGED <<pkg, cache, stream, job, secretNs, bundle, edits, faults>>
        BY <2>8 DEF Crash
      <3>2. up' \in BOOLEAN /\ crashes' \in Nat
        <4>1. up' \in BOOLEAN
          BY <3>1
        <4>2. crashes' \in Nat
          BY <3>1 DEF TypeOK
        <4> QED
          BY <4>1, <4>2
      <3>3. nsmap' \subseteq Namespaces \X (ReleaseNames \cup {None})
        <4>1. CASE UNCHANGED nsmap
          BY <4>1 DEF TypeOK
        <4>2. CASE At("install") \/ At("upgraded")
          <5>1. Installing
            BY <4>2 DEF At, Installing, InstallPcs
          <5>2. AddToConfigMap(w.n, TargetNs) \subseteq Namespaces \X (ReleaseNames \cup {None})
            BY <5>1, InstallTypes, ConfigMapType
          <5> QED
            BY <2>8, <5>2 DEF Crash, TypeOK
        <4> QED
          BY <2>8, <4>1, <4>2 DEF Crash
      <3>4. Puts
        BY <2>8, CrashLeaves, PutType DEF TypeOK
      <3> QED
        BY <3>1, <3>2, <3>3, <3>4 DEF TypeOK, InstallReady
    <2>9. CASE Restart
      BY <2>9 DEF Restart, TypeOK, InstallReady, helm
    <2>10. ASSUME NEW r \in ReleaseNames, Drift(r) PROVE TypeInv'
      BY <2>10 DEF Drift, Fault, TypeOK, InstallReady
    <2>11. CASE UNCHANGED vars
      BY <2>11 DEF vars, TypeOK, InstallReady
    <2> QED
      BY <2>1, <2>2, <2>3, <2>4, <2>5, <2>6, <2>7, <2>8, <2>9, <2>10, <2>11 DEF Next
  <1> QED
    BY <1>1, <1>2

\* Every value the reconciler, the helm driver and the webhook store is of its type: in
\* particular a release always has a namespace and a worker that installs has an object
\* and a source.
THEOREM TypeCorrect == Spec => []TypeOK
  <1>1. TypeInv => TypeOK
    BY DEF TypeInv
  <1> QED
    BY <1>1, TypeInductive, PTL DEF Spec

-----------------------------------------------------------------------------
(* Safety.                                                                 *)

Inv == TypeInv /\ Consistent

\* Steps that touch neither objects, cache, worker nor releases.
LEMMA Untouched ==
    ASSUME Inv, UNCHANGED <<pkg, cache, stream, w, rel, drifted, up>>
    PROVE  Consistent'
  BY DEF Inv, Consistent, CacheFollows, DeletedIsNew, Deleted, WrongNamespaceStates,
         WorkerConsistent, FreshSave, InstalledHasRelease, HasState

\* A new version in the stream: it is the last one, and nothing else is new.
LEMMA AppendFacts ==
    ASSUME NEW n, NEW e \in Objects \cup {None}, stream[n] \in Seq(Objects \cup {None}),
           stream'[n] = Append(stream[n], e)
    PROVE  /\ stream'[n] # <<>> /\ stream'[n][Len(stream'[n])] = e
           /\ \A i \in 1..Len(stream'[n]) :
                 stream'[n][i] # e => i \in 1..Len(stream[n]) /\ stream[n][i] = stream'[n][i]
  <1>1. stream'[n] # <<>>
    BY AppendProperties
  <1>2. stream'[n][Len(stream'[n])] = e
    BY SMT
  <1>3. ASSUME NEW i \in 1..Len(stream'[n]), stream'[n][i] # e
        PROVE  i \in 1..Len(stream[n]) /\ stream[n][i] = stream'[n][i]
    BY <1>3, SMT
  <1> QED
    BY <1>1, <1>2, <1>3

\* New versions of objects: the stream ends with them, and they are deletions, or
\* objects in the state they were in, or new.
LEMMA WriteConsistent ==
    ASSUME Inv, NEW K \in SUBSET Names, NEW new \in [K -> Objects \cup {None}],
           Write(K, new), UNCHANGED <<cache, rel, drifted>>,
           \A n \in K : new[n] # None =>
               new[n].st = "" \/ (pkg[n] # None /\ new[n].st = pkg[n].st)
    PROVE  /\ CacheFollows' /\ DeletedIsNew' /\ WrongNamespaceStates' /\ InstalledHasRelease'
           /\ \A n \in Names : pkg[n] = None \/ pkg[n].st = "" => pkg'[n] = None \/ pkg'[n].st = ""
  <1> USE DEF Inv, TypeInv, TypeOK
  <1>1. ASSUME NEW n \in Names, n \notin K
        PROVE  pkg'[n] = pkg[n] /\ stream'[n] = stream[n]
    BY <1>1 DEF Write
  <1>2. ASSUME NEW n \in K
        PROVE  /\ pkg'[n] = new[n] /\ stream'[n] = Append(stream[n], new[n])
               /\ stream[n] \in Seq(Objects \cup {None}) /\ new[n] \in Objects \cup {None}
    BY <1>2 DEF Write
  <1>3. ASSUME NEW n \in K
        PROVE  /\ stream'[n] # <<>> /\ stream'[n][Len(stream'[n])] = new[n]
               /\ (\E i \in 1..Len(stream'[n]) : stream'[n][i] = None) =>
                     new[n] = None \/ \E i \in 1..Len(stream[n]) : stream[n][i] = None
    <2> HIDE DEF Inv, TypeInv, TypeOK
    <2>1. /\ stream'[n] # <<>> /\ stream'[n][Len(stream'[n])] = new[n]
          /\ \A i \in 1..Len(stream'[n]) :
               stream'[n][i] # new[n] => i \in 1..Len(stream[n]) /\ stream[n][i] = stream'[n][i]
      <3>1. /\ new[n] \in Objects \cup {None} /\ stream[n] \in Seq(Objects \cup {None})
            /\ stream'[n] = Append(stream[n], new[n])
        BY <1>2
      <3> QED
        BY <3>1, AppendFacts, Zenon
    <2> QED
      BY <2>1, Zenon
  <1>4. CacheFollows'
    BY <1>1, <1>2, <1>3 DEF CacheFollows, Consistent
  <1>5. ASSUME NEW n \in K, new[n] # None,
               cache'[n] = None \/ \E i \in 1..Len(stream'[n]) : stream'[n][i] = None
        PROVE  Deleted(n)
    BY <1>3, <1>5 DEF Deleted
  <1>6. DeletedIsNew'
    <2> SUFFICES ASSUME NEW n \in Names, pkg'[n] # None,
                   cache'[n] = None \/ \E i \in 1..Len(stream'[n]) : stream'[n][i] = None
                 PROVE  pkg'[n].st = ""
      BY DEF DeletedIsNew, Deleted
    <2>1. CASE n \in K
      BY <1>2, <1>5, <2>1 DEF DeletedIsNew, Consistent
    <2>2. CASE n \notin K
      BY <1>1, <2>2 DEF DeletedIsNew, Deleted, Consistent
    <2> QED
      BY <2>1, <2>2
  <1>7. WrongNamespaceStates'
    BY <1>1, <1>2 DEF WrongNamespaceStates, Consistent
  <1>8. InstalledHasRelease'
    BY <1>1, <1>2 DEF InstalledHasRelease, HasState, Consistent
  <1>9. ASSUME NEW n \in Names, pkg[n] = None \/ pkg[n].st = ""
        PROVE  pkg'[n] = None \/ pkg'[n].st = ""
    BY <1>1, <1>2, <1>9
  <1> QED
    BY <1>4, <1>6, <1>7, <1>8, <1>9

LEMMA UserWriteConsistent ==
    ASSUME Inv, NEW n \in Names, NEW o \in Objects \cup {None}, UserWrite(n, o),
           o # None => o.st = "" \/ (pkg[n] # None /\ o.st = pkg[n].st)
    PROVE  Consistent'
  <1> DEFINE new == [m \in {n} |-> o]
  <1>1. /\ {n} \in SUBSET Names /\ new \in [{n} -> Objects \cup {None}]
        /\ Write({n}, new) /\ UNCHANGED <<cache, rel, drifted, up>> /\ Outdate(n)
        /\ \A m \in {n} : new[m] # None =>
              new[m].st = "" \/ (pkg[m] # None /\ new[m].st = pkg[m].st)
    BY DEF UserWrite, helm
  <1>2. /\ CacheFollows' /\ DeletedIsNew' /\ WrongNamespaceStates' /\ InstalledHasRelease'
        /\ \A m \in Names : pkg[m] = None \/ pkg[m].st = "" => pkg'[m] = None \/ pkg'[m].st = ""
    BY <1>1, WriteConsistent
  <1>3. WorkerConsistent'
    <2>1. CASE w = None
      BY <1>1, <2>1 DEF Outdate, WorkerConsistent
    <2>2. CASE w # None /\ w.n # n
      <3>1. w' = w /\ w \in Workers /\ w.n \in Names
        BY <1>1, <2>2 DEF Outdate, Inv, TypeInv, TypeOK, Workers
      <3>2. pkg'[w.n] = pkg[w.n] /\ stream'[w.n] = stream[w.n]
        BY <1>1, <2>2, <3>1 DEF Write
      <3> QED
        BY <1>1, <2>2, <3>1, <3>2 DEF Inv, Consistent, WorkerConsistent, FreshSave
    <2>3. CASE w # None /\ w.n = n
      <3>1. w \in Workers /\ w' = [w EXCEPT !.fresh = FALSE]
        BY <1>1, <2>3 DEF Outdate, Inv, TypeInv, TypeOK
      <3>2. /\ w'.n = w.n /\ w'.pc = w.pc /\ w'.obj = w.obj
        BY <3>1 DEF Workers
      <3>3. ~ w'.fresh
        BY <3>1 DEF Workers
      <3> QED
        BY <1>1, <1>2, <2>3, <3>2, <3>3 DEF Inv, Consistent, WorkerConsistent
    <2> QED
      BY <2>1, <2>2, <2>3
  <1> QED
    BY <1>2, <1>3 DEF Consistent

LEMMA UserConsistent ==
    ASSUME Inv, User
    PROVE  Consistent'
  <1>1. ASSUME NEW n \in Names, NEW spec \in Wanted[n], UserCreate(n, spec)
        PROVE  Consistent'
    <2>1. NewObject(spec) \in Objects /\ NewObject(spec).st = ""
      BY CatalogAssumption, NewObjectType DEF NewObject
    <2> QED
      BY <1>1, <2>1, UserWriteConsistent DEF UserCreate
  <1>2. ASSUME NEW n \in Names, NEW spec \in Wanted[n], UserUpdate(n, spec)
        PROVE  Consistent'
    <2>1. spec \in Specs /\ pkg[n] \in Objects /\ pkg[n] # None
      BY <1>2, CatalogAssumption DEF UserUpdate, Inv, TypeInv, TypeOK
    <2>2. /\ [pkg[n] EXCEPT !.spec = spec] \in Objects
          /\ [pkg[n] EXCEPT !.spec = spec].st = pkg[n].st
      BY <2>1 DEF Objects
    <2> QED
      BY <1>2, <2>1, <2>2, UserWriteConsistent DEF UserUpdate
  <1>3. ASSUME NEW n \in Names, UserDelete(n)
        PROVE  Consistent'
    BY <1>3, UserWriteConsistent DEF UserDelete
  <1>4. ASSUME NEW b \in Bundles \cup {None}, ChangeBundle(b)
        PROVE  Consistent'
    BY <1>4, Untouched DEF ChangeBundle, helm
  <1> QED
    BY <1>1, <1>2, <1>3, <1>4 DEF User

\* The oldest event leaves the stream.
LEMMA TailFacts ==
    ASSUME NEW n, stream[n] \in Seq(Objects \cup {None}), stream[n] # <<>>,
           stream'[n] = Tail(stream[n])
    PROVE  /\ Len(stream[n]) \in Nat /\ 1 \in 1..Len(stream[n])
           /\ Head(stream[n]) = stream[n][1]
           /\ stream'[n] = <<>> => Head(stream[n]) = stream[n][Len(stream[n])]
           /\ stream'[n] # <<>> => stream'[n][Len(stream'[n])] = stream[n][Len(stream[n])]
           /\ \A i \in 1..Len(stream'[n]) :
                 i + 1 \in 1..Len(stream[n]) /\ stream'[n][i] = stream[n][i + 1]
  <1> DEFINE q == stream[n]
             t == stream'[n]
  <1>1. /\ Len(q) \in Nat /\ Len(q) # 0 /\ Head(q) = q[1]
        /\ t \in Seq(Objects \cup {None}) /\ Len(t) = Len(q) - 1
    BY HeadTailProperties, EmptySeq, LenProperties
  <1>2. \A i \in 1..Len(t) : i + 1 \in 1..Len(q) /\ t[i] = q[i + 1]
    BY <1>1, SMT
  <1>3. ASSUME t = <<>>
        PROVE  Head(q) = q[Len(q)]
    <2>1. Len(t) = 0
      BY <1>3, EmptySeq
    <2> HIDE DEF t, q
    <2>2. Len(q) = 1
      BY <1>1, <2>1
    <2> QED
      BY <1>1, <2>2
  <1>4. t # <<>> => Len(t) # 0
    BY <1>1, EmptySeq
  <1>5. t # <<>> => t[Len(t)] = q[Len(q)]
    BY <1>1, <1>2, <1>4, SMT
  <1> QED
    BY <1>1, <1>2, <1>3, <1>5

LEMMA DeliverConsistent ==
    ASSUME Inv, NEW n \in Names, Deliver(n)
    PROVE  Consistent'
  <1>1. /\ stream[n] # <<>> /\ stream'[n] = Tail(stream[n]) /\ cache'[n] = Head(stream[n])
        /\ stream[n] \in Seq(Objects \cup {None})
        /\ \A m \in Names : m # n => stream'[m] = stream[m] /\ cache'[m] = cache[m]
        /\ UNCHANGED <<pkg, w, rel, drifted, up>>
    BY DEF Deliver, Inv, TypeInv, TypeOK, helm
  <1>2. /\ Len(stream[n]) \in Nat /\ 1 \in 1..Len(stream[n])
        /\ Head(stream[n]) = stream[n][1]
        /\ stream'[n] = <<>> => Head(stream[n]) = stream[n][Len(stream[n])]
        /\ stream'[n] # <<>> => stream'[n][Len(stream'[n])] = stream[n][Len(stream[n])]
        /\ \A i \in 1..Len(stream'[n]) :
              i + 1 \in 1..Len(stream[n]) /\ stream'[n][i] = stream[n][i + 1]
    BY <1>1, TailFacts, Zenon
  <1>3. CacheFollows'
    BY <1>1, <1>2 DEF CacheFollows, Inv, Consistent
  <1>4. DeletedIsNew'
    <2> SUFFICES ASSUME NEW m \in Names, pkg'[m] # None,
                   cache'[m] = None \/ \E i \in 1..Len(stream'[m]) : stream'[m][i] = None
                 PROVE  pkg'[m].st = ""
      BY DEF DeletedIsNew, Deleted
    <2>1. Deleted(m)
      <3>1. CASE m # n
        BY <1>1, <3>1 DEF Deleted
      <3>2. CASE m = n
        <4>1. CASE cache'[n] = None
          BY <1>1, <1>2, <3>2, <4>1 DEF Deleted
        <4>2. ASSUME NEW i \in 1..Len(stream'[n]), stream'[n][i] = None
              PROVE  Deleted(n)
          BY <1>2, <4>2, Zenon DEF Deleted
        <4> QED
          BY <3>2, <4>1, <4>2
      <3> QED
        BY <3>1, <3>2
    <2> QED
      BY <1>1, <2>1 DEF DeletedIsNew, Inv, Consistent
  <1>5. WrongNamespaceStates' /\ InstalledHasRelease'
    BY <1>1 DEF WrongNamespaceStates, InstalledHasRelease, HasState, Inv, Consistent
  <1>6. WorkerConsistent'
    <2>1. CASE w # None
      <3>1. w \in Workers /\ w.n \in Names
        BY <2>1 DEF Inv, TypeInv, TypeOK, Workers
      <3> QED
        BY <1>1, <2>1, <3>1 DEF WorkerConsistent, FreshSave, Inv, Consistent
    <2>2. CASE w = None
      BY <1>1, <2>2 DEF WorkerConsistent
    <2> QED
      BY <2>1, <2>2
  <1> QED
    BY <1>3, <1>4, <1>5, <1>6 DEF Consistent

\* A reconciliation that starts changes only the worker: its effect on the invariant.
LEMMA HoldConsistent ==
    ASSUME Inv, UNCHANGED <<pkg, cache, stream, rel, drifted, up>>, WorkerConsistent'
    PROVE  Consistent'
  BY DEF Inv, Consistent, CacheFollows, DeletedIsNew, Deleted, WrongNamespaceStates,
         InstalledHasRelease, HasState

\* A reconciliation that prepares a status update moves along an arc, and never to
\* "installed".
LEMMA SaveConsistent ==
    ASSUME Inv, NEW n \in Names, Take(n), cache[n] # None, NEW x \in Objects,
           NEW again \in BOOLEAN, Save(n, x, again),
           \/ x.st = cache[n].st
           \/ /\ <<cache[n].st, x.st>> \in Arcs /\ x.st # "installed"
              /\ NsOf[n] = "invalid" => x.st = "unknown"
    PROVE  Consistent'
  <1>1. /\ w'.pc = "commit" /\ w'.n = n /\ w'.obj = x
        /\ UNCHANGED <<pkg, cache, stream, rel, drifted, up>> /\ up
    BY DEF Save, Hold, helm, Take
  <1>2. w'.fresh = (stream[n] = <<>>)
    BY DEF Save, Hold
  <1>3. ASSUME w'.fresh PROVE FreshSave'
    <2>1. stream[n] = <<>> /\ pkg[n] = cache[n]
      BY <1>2, <1>3 DEF Inv, Consistent, CacheFollows
    <2>2. pkg[n].st = "installed" => rel[RelOf[n]] # None \/ RelOf[n] \in drifted
      BY <2>1 DEF Inv, Consistent, InstalledHasRelease, HasState
    <2>3. NsOf[n] = "invalid" => pkg[n].st \in {"", "unknown"}
      BY <2>1 DEF Inv, Consistent, WrongNamespaceStates
    <2> QED
      BY <1>1, <2>1, <2>2, <2>3 DEF FreshSave
  <1>4. WorkerConsistent'
    BY <1>1, <1>3 DEF WorkerConsistent
  <1> QED
    BY <1>1, <1>4, HoldConsistent

LEMMA ReconcileConsistent ==
    ASSUME Inv, NEW n \in Names, Reconcile(n)
    PROVE  Consistent'
  <1> DEFINE o == cache[n]
  <1>t. Take(n)
    BY DEF Reconcile, GetFails, BeginUninstall, RejectDeleted, SaveUnresolved,
           ProcessInvalidNamespace, ProcessInitializing, ProcessUpdating,
           DependenciesUnknown, DependenciesReady, DependenciesWaiting, SourceChanged,
           CheckFails, ConfigChanged, NothingToDo, BeginInstall
  <1>o. ASSUME o # None
        PROVE  o \in Objects /\ o.spec \in Specs /\ Source(n) \in Sources \cup {None}
    BY <1>o, SourceType DEF Objects, Inv, TypeInv
  <1>s. ASSUME NEW x \in Objects, NEW again \in BOOLEAN, o # None, Save(n, x, again),
               \/ x.st = o.st
               \/ /\ <<o.st, x.st>> \in Arcs /\ x.st # "installed"
                  /\ NsOf[n] = "invalid" => x.st = "unknown"
        PROVE  Consistent'
    BY <1>t, <1>s, SaveConsistent
  <1>1. CASE GetFails(n)
    BY <1>1, Untouched DEF GetFails, helm
  <1>2. CASE BeginUninstall(n)
    <2>1. /\ w'.pc = "uninstall" /\ w'.n = n
          /\ UNCHANGED <<pkg, cache, stream, rel, drifted, up>> /\ up
      BY <1>2 DEF BeginUninstall, Hold, Take, helm
    <2>2. pkg[n] = None \/ pkg[n].st = ""
      BY <1>2 DEF BeginUninstall, Inv, Consistent, DeletedIsNew, Deleted
    <2>3. WorkerConsistent'
      BY <2>1, <2>2 DEF WorkerConsistent
    <2> QED
      BY <2>1, <2>3, HoldConsistent
  <1>3. CASE RejectDeleted(n)
    BY <1>3, Untouched DEF RejectDeleted, helm
  <1>4. CASE SaveUnresolved(n)
    <2> DEFINE x == [o EXCEPT !.detail = "error"]
    <2>1. x \in Objects /\ x.st = o.st
      BY <1>4, <1>o DEF SaveUnresolved, Objects, Details
    <2> QED
      BY <1>4, <1>s, <2>1 DEF SaveUnresolved
  <1>5. CASE ProcessInvalidNamespace(n)
    <2> DEFINE x == [o EXCEPT !.detail = "bad namespace", !.st = "unknown"]
    <2>1. CASE o.st = "unknown"
      BY <1>5, <2>1, Untouched DEF ProcessInvalidNamespace, helm
    <2>2. CASE o.st # "unknown"
      <3>1. /\ o # None /\ NsOf[n] = "invalid" /\ Save(n, x, FALSE)
        BY <1>5, <2>2 DEF ProcessInvalidNamespace
      <3>2. x \in Objects /\ x.st = "unknown"
        BY <3>1, <1>o DEF Objects, Details, States
      <3>3. /\ w'.pc = "commit" /\ w'.n = n /\ w'.obj = x
            /\ UNCHANGED <<pkg, cache, stream, rel, drifted, up>> /\ up
        BY <1>t, <3>1 DEF Save, Hold, helm, Take
      <3>4. w'.fresh = (stream[n] = <<>>)
        BY <3>1 DEF Save, Hold
      <3>5. ASSUME w'.fresh PROVE FreshSave'
        <4>1. stream[n] = <<>> /\ pkg[n] = cache[n]
          BY <3>4, <3>5 DEF Inv, Consistent, CacheFollows
        <4>2. pkg[n].st = ""
          BY <2>2, <3>1, <4>1 DEF Inv, Consistent, WrongNamespaceStates
        <4> QED
          BY <3>1, <3>2, <3>3, <4>1, <4>2 DEF FreshSave, Arcs
      <3>6. WorkerConsistent'
        BY <3>3, <3>5 DEF WorkerConsistent
      <3> QED
        BY <3>3, <3>6, HoldConsistent
    <2> QED
      BY <2>1, <2>2
  <1>6. CASE ProcessInitializing(n)
    <2> DEFINE x == [o EXCEPT !.src = Source(n), !.st = "installing dependencies",
                              !.stns = o.spec.tns]
    <2>1. x \in Objects /\ x.st = "installing dependencies"
      BY <1>6, <1>o DEF ProcessInitializing, InState, Objects, Specs, States
    <2> QED
      BY <1>6, <1>s, <2>1 DEF ProcessInitializing, InState, Arcs
  <1>7. CASE ProcessUpdating(n)
    <2> DEFINE x == [o EXCEPT !.st = "installing dependencies"]
    <2>1. x \in Objects /\ x.st = "installing dependencies"
      BY <1>7, <1>o DEF ProcessUpdating, InState, Objects, States
    <2> QED
      BY <1>7, <1>s, <2>1 DEF ProcessUpdating, InState, Arcs
  <1>8. CASE DependenciesUnknown(n)
    <2> DEFINE x == [o EXCEPT !.detail = "error"]
    <2>1. x \in Objects /\ x.st = o.st
      BY <1>8, <1>o DEF DependenciesUnknown, InState, Objects, Details
    <2> QED
      BY <1>8, <1>s, <2>1 DEF DependenciesUnknown, InState
  <1>9. CASE DependenciesReady(n)
    <2> DEFINE x == [o EXCEPT !.st = "installing", !.detail = ""]
    <2>1. x \in Objects /\ x.st = "installing"
      BY <1>9, <1>o DEF DependenciesReady, InState, Objects, States, Details
    <2> QED
      BY <1>9, <1>s, <2>1 DEF DependenciesReady, InState, Arcs
  <1>10. CASE DependenciesWaiting(n)
    <2>1. PICK D \in SUBSET Creatable(n) :
             Write({DepKey[n][d] : d \in D},
                   [m \in {DepKey[n][d] : d \in D} |->
                      NewObject(DepSpec(n, CHOOSE d \in D : DepKey[n][d] = m))])
      BY <1>10 DEF DependenciesWaiting
    <2> DEFINE K == {DepKey[n][d] : d \in D}
               new == [m \in K |-> NewObject(DepSpec(n, CHOOSE d \in D : DepKey[n][d] = m))]
    <2>2. /\ o # None /\ Source(n) \in Sources /\ NsOf[n] # "invalid"
          /\ o.st = "installing dependencies"
      BY <1>10, <1>o DEF DependenciesWaiting, InState
    <2>3. D \subseteq PackageNames
      BY <2>2, CatalogAssumption DEF Creatable, Missing
    <2>4. K \in SUBSET Names /\ \A m \in K : pkg[m] = None
      BY <2>3, NamesAssumption DEF Creatable
    <2>5. ASSUME NEW m \in K
          PROVE  new[m] \in Objects \cup {None} /\ new[m].st = ""
      <3>1. (CHOOSE d \in D : DepKey[n][d] = m) \in PackageNames
        BY <2>3
      <3>2. DepSpec(n, CHOOSE d \in D : DepKey[n][d] = m) \in Specs
        BY <3>1, <2>2, <1>o, CatalogAssumption DEF DepSpec, Specs
      <3> QED
        BY <3>2, NewObjectType DEF NewObject
    <2>6. new \in [K -> Objects \cup {None}]
      BY <2>5
    <2>7. /\ UNCHANGED <<cache, rel, drifted, up>> /\ up
          /\ Hold("commit", n, [o EXCEPT !.detail = "waiting"], Source(n), TRUE)
      BY <1>10, <1>t DEF DependenciesWaiting, Take, helm
    <2> HIDE DEF K, new
    <2>8. Write(K, new)
      BY <2>1 DEF K, new
    <2>9. CacheFollows' /\ DeletedIsNew' /\ WrongNamespaceStates' /\ InstalledHasRelease'
      BY <2>4, <2>5, <2>6, <2>7, <2>8, WriteConsistent
    <2>10. /\ w'.pc = "commit" /\ w'.n = n /\ w'.obj = [o EXCEPT !.detail = "waiting"]
      BY <2>7 DEF Hold
    <2>11. w'.fresh = (stream[n] = <<>>)
      BY <2>7 DEF Hold
    <2>12. w'.obj.st = o.st
      BY <2>2, <2>10, <1>o DEF Objects
    <2>13. ASSUME w'.fresh PROVE FreshSave'
      <3>1. stream[n] = <<>> /\ pkg[n] = cache[n]
        BY <2>11, <2>13 DEF Inv, Consistent, CacheFollows
      <3>2. n \notin K
        BY <2>2, <2>4, <3>1
      <3>3. pkg'[n] = pkg[n] /\ stream'[n] = <<>>
        BY <2>8, <3>1, <3>2 DEF Write
      <3> QED
        BY <2>2, <2>10, <2>12, <3>1, <3>3 DEF FreshSave
    <2>14. WorkerConsistent'
      BY <2>7, <2>10, <2>13 DEF WorkerConsistent
    <2> QED
      BY <2>9, <2>14 DEF Consistent
  <1>11. CASE SourceChanged(n)
    <2> DEFINE x == [o EXCEPT !.src = Source(n), !.st = "updating"]
    <2>1. x \in Objects /\ x.st = "updating"
      BY <1>11, <1>o DEF SourceChanged, InState, Objects, States
    <2> QED
      BY <1>11, <1>s, <2>1 DEF SourceChanged, InState, Arcs
  <1>12. CASE CheckFails(n)
    <2> DEFINE x == [o EXCEPT !.detail = "error"]
    <2>1. x \in Objects /\ x.st = o.st
      BY <1>12, <1>o DEF CheckFails, Checkable, InState, Objects, Details
    <2> QED
      BY <1>12, <1>s, <2>1 DEF CheckFails, Checkable, InState
  <1>13. CASE ConfigChanged(n)
    <2> DEFINE x == [o EXCEPT !.st = "updating", !.stns = o.spec.tns]
    <2>1. x \in Objects /\ x.st = "updating"
      BY <1>13, <1>o DEF ConfigChanged, Checkable, InState, Objects, Specs, States
    <2> QED
      BY <1>13, <1>s, <2>1 DEF ConfigChanged, Checkable, InState, Arcs
  <1>14. CASE NothingToDo(n)
    BY <1>14, Untouched DEF NothingToDo, helm
  <1>15. CASE BeginInstall(n)
    <2>1. o \in Objects /\ o # None /\ o.st = "installing" /\ NsOf[n] # "invalid"
      BY <1>15, <1>o DEF BeginInstall, InState
    <2>2. /\ w'.pc = "install" /\ w'.n = n /\ w'.obj = [o EXCEPT !.src = Source(n)]
          /\ UNCHANGED <<pkg, cache, stream, rel, drifted, up>> /\ up
      BY <1>15 DEF BeginInstall, Hold, Take, helm
    <2>3. w'.fresh = (stream[n] = <<>>)
      BY <1>15 DEF BeginInstall, Hold
    <2>4. w'.obj.st = "installing"
      BY <2>1, <2>2 DEF Objects
    <2>5. ASSUME w'.fresh PROVE FreshSave'
      <3>1. stream[n] = <<>> /\ pkg[n] = cache[n]
        BY <2>3, <2>5 DEF Inv, Consistent, CacheFollows
      <3> QED
        BY <2>1, <2>2, <2>4, <3>1 DEF FreshSave
    <2>6. WorkerConsistent'
      BY <2>1, <2>2, <2>4, <2>5 DEF WorkerConsistent
    <2> QED
      BY <2>2, <2>6, HoldConsistent
  <1> QED
    BY <1>1, <1>2, <1>3, <1>4, <1>5, <1>6, <1>7, <1>8, <1>9, <1>10, <1>11, <1>12, <1>13,
       <1>14, <1>15 DEF Reconcile

\* Putting a release never harms an installed Package, unless it takes one away.
LEMMA PutConsistent ==
    ASSUME Inv, w \in Workers, NEW r \in Releases \cup {None}, Put(r), UNCHANGED pkg,
           r = None => rel[RelOf[w.n]] = None
    PROVE  InstalledHasRelease'
  <1>1. RelOf[w.n] \in ReleaseNames /\ \A n \in Names : RelOf[n] \in ReleaseNames
    BY NamesAssumption DEF Workers
  <1>2. CASE r = None
    BY <1>1, <1>2 DEF Put, Inv, TypeInv, TypeOK, Consistent, InstalledHasRelease, HasState
  <1>3. CASE r # None
    BY <1>1, <1>3 DEF Put, Inv, TypeInv, TypeOK, Consistent, InstalledHasRelease, HasState
  <1> QED
    BY <1>2, <1>3

\* Taking a release away harms no other Package than the one it stands for.
LEMMA TakeAwayConsistent ==
    ASSUME Inv, DistinctReleases, w \in Workers, Put(None), UNCHANGED pkg,
           pkg[w.n] = None \/ pkg[w.n].st = ""
    PROVE  InstalledHasRelease'
  <1>1. w.n \in Names /\ \A n \in Names : RelOf[n] \in ReleaseNames
    BY NamesAssumption DEF Workers
  <1>2. ASSUME NEW n \in Names, HasState(n, "installed")
        PROVE  rel'[RelOf[n]] = rel[RelOf[n]] /\ drifted' = drifted
    <2>1. n # w.n
      BY <1>2 DEF HasState
    <2>2. RelOf[n] # RelOf[w.n]
      BY <1>1, <2>1 DEF DistinctReleases
    <2> QED
      BY <1>1, <2>2 DEF Put, Inv, TypeInv, TypeOK
  <1> QED
    BY <1>2 DEF Inv, Consistent, InstalledHasRelease, HasState

\* The worker is idle again and no object has changed.
LEMMA IdleConsistent ==
    ASSUME Inv, w' = None, UNCHANGED <<pkg, cache, stream>>, InstalledHasRelease'
    PROVE  Consistent'
  BY DEF Inv, Consistent, CacheFollows, DeletedIsNew, Deleted, WrongNamespaceStates,
         WorkerConsistent

\* helmDriver.Install returns: the copy becomes installed, or stays as it was.
LEMMA ReturnConsistent ==
    ASSUME Inv, Installing, InstalledHasRelease', NEW x \in Objects, Return(x),
           \/ x.st = w.obj.st
           \/ x.st = "installed" /\ (rel'[RelOf[w.n]] # None \/ RelOf[w.n] \in drifted')
    PROVE  Consistent'
  <1>1. w \in Workers
    BY InstallTypes DEF Inv
  <1>2. /\ w'.pc = "commit" /\ w'.n = w.n /\ w'.obj = x /\ w'.fresh = w.fresh
        /\ UNCHANGED <<pkg, cache, stream, up>> /\ up
    BY <1>1 DEF Return, Workers, Installing
  <1>3. /\ w.obj.st = "installing" /\ NsOf[w.n] # "invalid" /\ w.pc # "commit"
        /\ w.fresh => FreshSave
    BY <1>1 DEF Installing, InstallPcs, Inv, Consistent, WorkerConsistent
  <1>4. ASSUME w'.fresh PROVE FreshSave'
    <2>1. FreshSave
      BY <1>2, <1>3, <1>4
    <2> QED
      BY <1>1, <1>2, <1>3, <2>1 DEF FreshSave, Arcs
  <1>5. WorkerConsistent'
    BY <1>2, <1>4 DEF WorkerConsistent
  <1> QED
    BY <1>2, <1>5 DEF Inv, Consistent, CacheFollows, DeletedIsNew, Deleted,
                      WrongNamespaceStates

\* It goes on: there is no release yet, or there is one.
LEMMA GotoConsistent ==
    ASSUME Inv, Installing, InstalledHasRelease', NEW pc \in InstallPcs, Goto(pc),
           pc = "create" => rel'[RelOf[w.n]] = None,
           pc \in {"created", "upgraded"} =>
              rel'[RelOf[w.n]] # None \/ RelOf[w.n] \in drifted'
    PROVE  Consistent'
  <1>1. w \in Workers
    BY InstallTypes DEF Inv
  <1>2. /\ w'.pc = pc /\ w'.n = w.n /\ w'.obj = w.obj /\ w'.fresh = w.fresh
        /\ UNCHANGED <<pkg, cache, stream, up>> /\ up
    BY <1>1 DEF Goto, Workers, Installing
  <1>3. /\ w.obj.st = "installing" /\ NsOf[w.n] # "invalid" /\ w.pc # "commit"
        /\ w.fresh => FreshSave
    BY <1>1 DEF Installing, InstallPcs, Inv, Consistent, WorkerConsistent
  <1>4. ASSUME w'.fresh PROVE FreshSave'
    <2>1. FreshSave
      BY <1>2, <1>3, <1>4
    <2> QED
      BY <1>1, <1>2, <1>3, <2>1 DEF FreshSave
  <1>5. WorkerConsistent'
    BY <1>2, <1>3, <1>4 DEF WorkerConsistent, InstallPcs
  <1> QED
    BY <1>2, <1>5 DEF Inv, Consistent, CacheFollows, DeletedIsNew, Deleted,
                      WrongNamespaceStates

\* Every step of Install keeps the invariant.
LEMMA InstallStepConsistent ==
    ASSUME Inv, InstallStep
    PROVE  Consistent'
  <1> DEFINE r == rel[RelOf[w.n]]
  <1>i. Installing
    BY InstallStepProceeds
  <1>w. /\ w \in Workers /\ w.n \in Names /\ w.obj \in Objects
        /\ Installed(w.obj) \in Objects /\ Failed(w.obj) \in Objects
        /\ Installed(w.obj).st = "installed" /\ Failed(w.obj).st = w.obj.st
        /\ \A status \in {"deployed", "failed", "unfinished"} :
              /\ Release(status, TargetNs) \in Releases
              /\ r # None => Release(status, r.ns) \in Releases
    BY <1>i, InstallTypes DEF Inv
  <1>r. RelOf[w.n] \in ReleaseNames /\ r \in Releases \cup {None}
    BY <1>w, NamesAssumption DEF Inv, TypeInv, TypeOK
  <1>u. NoPut /\ UNCHANGED pkg => InstalledHasRelease'
    BY DEF NoPut, Inv, Consistent, InstalledHasRelease, HasState
  <1>p. ASSUME NEW q \in Releases, Put(q)
        PROVE  rel'[RelOf[w.n]] # None
    BY <1>r, <1>p, NoneAssumption DEF Put, Inv, TypeInv, TypeOK
  <1>1. CASE InstallFails
    <2>1. Return(Failed(w.obj)) /\ NoPut /\ UNCHANGED pkg
      BY <1>1 DEF InstallFails, Return
    <2> QED
      BY <1>i, <1>w, <1>u, <2>1, ReturnConsistent
  <1>2. CASE PrepareRelease
    <2>1. Goto("create") /\ NoPut /\ UNCHANGED pkg /\ r = None
      BY <1>2 DEF PrepareRelease, Goto
    <2>2. rel'[RelOf[w.n]] = None
      BY <2>1 DEF NoPut
    <2> QED
      BY <1>i, <1>u, <2>1, <2>2, GotoConsistent DEF InstallPcs
  <1>3. CASE CreateRelease
    <2>1. Goto("created") /\ Put(Release("deployed", TargetNs)) /\ UNCHANGED pkg
      BY <1>3 DEF CreateRelease, Goto
    <2>2. Release("deployed", TargetNs) \in Releases
      BY <1>w
    <2>3. InstalledHasRelease' /\ rel'[RelOf[w.n]] # None
      BY <1>w, <1>p, <2>1, <2>2, NoneAssumption, PutConsistent
    <2> QED
      BY <1>i, <2>1, <2>3, GotoConsistent DEF InstallPcs
  <1>4. CASE ReturnCreated \/ ReturnUpgraded
    <2>1. Return(Installed(w.obj)) /\ NoPut /\ UNCHANGED pkg
      BY <1>4 DEF ReturnCreated, ReturnUpgraded, Return
    <2>2. w # None /\ w.pc \in {"created", "upgraded"}
      BY <1>4 DEF ReturnCreated, ReturnUpgraded, At
    <2>3. r # None \/ RelOf[w.n] \in drifted
      BY <2>2 DEF Inv, Consistent, WorkerConsistent
    <2>4. rel'[RelOf[w.n]] # None \/ RelOf[w.n] \in drifted'
      BY <2>1, <2>3 DEF NoPut
    <2> QED
      BY <1>i, <1>w, <1>u, <2>1, <2>4, ReturnConsistent
  <1>5. CASE CreateReleaseFails
    <2>1. /\ Goto("undo") /\ (Put(None) \/ Put(Release("failed", TargetNs))) /\ UNCHANGED pkg
          /\ w # None /\ w.pc = "create"
      BY <1>5 DEF CreateReleaseFails, Goto, At
    <2>2. r = None
      BY <2>1 DEF Inv, Consistent, WorkerConsistent
    <2>3. Release("failed", TargetNs) \in Releases
      BY <1>w
    <2>4. InstalledHasRelease'
      BY <1>w, <2>1, <2>2, <2>3, NoneAssumption, PutConsistent
    <2> QED
      BY <1>i, <2>1, <2>4, GotoConsistent DEF InstallPcs
  <1>6. CASE ReturnUndone
    <2>1. Return(Failed(w.obj)) /\ NoPut /\ UNCHANGED pkg
      BY <1>6 DEF ReturnUndone, Return
    <2> QED
      BY <1>i, <1>w, <1>u, <2>1, ReturnConsistent
  <1>7. CASE UpgradeRelease
    <2>1. Goto("upgraded") /\ r # None /\ Put(Release("deployed", r.ns)) /\ UNCHANGED pkg
      BY <1>7 DEF UpgradeRelease, Goto
    <2>2. Release("deployed", r.ns) \in Releases
      BY <1>w, <2>1
    <2>3. InstalledHasRelease' /\ rel'[RelOf[w.n]] # None
      BY <1>w, <1>p, <2>1, <2>2, NoneAssumption, PutConsistent
    <2> QED
      BY <1>i, <2>1, <2>3, GotoConsistent DEF InstallPcs
  <1>8. CASE UpgradeReleaseFails
    <2>1. /\ Return(Failed(w.obj)) /\ r # None /\ UNCHANGED pkg
          /\ Put(r) \/ Put(Release("failed", r.ns)) \/ NoPut
      BY <1>8 DEF UpgradeReleaseFails, Return
    <2>2. Release("failed", r.ns) \in Releases
      BY <1>w, <2>1
    <2>3. InstalledHasRelease'
      BY <1>w, <1>r, <1>u, <2>1, <2>2, NoneAssumption, PutConsistent
    <2> QED
      BY <1>i, <1>w, <2>1, <2>3, ReturnConsistent
  <1> QED
    BY <1>1, <1>2, <1>3, <1>4, <1>5, <1>6, <1>7, <1>8 DEF InstallStep

LEMMA WorkerStepConsistent ==
    ASSUME Inv, DistinctReleases, WorkerStep
    PROVE  Consistent'
  <1>w. w \in Workers /\ w # None /\ up
    BY WorkerSteps DEF Inv, TypeInv
  <1>n. w.n \in Names /\ RelOf[w.n] \in ReleaseNames
    BY <1>w, NamesAssumption DEF Workers
  <1> DEFINE r == rel[RelOf[w.n]]
  <1>r. r \in Releases \cup {None}
    BY <1>n DEF Inv, TypeInv, TypeOK
  <1>u. UNCHANGED <<rel, drifted>> /\ UNCHANGED pkg => InstalledHasRelease'
    BY DEF Inv, Consistent, InstalledHasRelease, HasState
  <1>4. CASE InstallStep
    BY <1>4, InstallStepConsistent
  <1>5. CASE NothingToUninstall \/ Unlist
    <2>1. w' = None /\ UNCHANGED <<pkg, cache, stream>> /\ UNCHANGED <<rel, drifted>>
      BY <1>5 DEF NothingToUninstall, Unlist, NoPut, Finish, helm
    <2> QED
      BY <1>u, <2>1, IdleConsistent
  <1>6. CASE Uninstall
    <2>1. /\ w.pc = "uninstall" /\ Put(None) /\ UNCHANGED <<pkg, cache, stream, up>>
          /\ w' = [w EXCEPT !.pc = "unlist", !.ns = r.ns]
      BY <1>6 DEF Uninstall, At
    <2>2. pkg[w.n] = None \/ pkg[w.n].st = ""
      BY <1>w, <2>1 DEF Inv, Consistent, WorkerConsistent
    <2>3. InstalledHasRelease'
      BY <1>w, <2>1, <2>2, TakeAwayConsistent
    <2>4. w'.pc = "unlist"
      BY <1>w, <2>1 DEF Workers
    <2>5. WorkerConsistent'
      BY <1>w, <2>1, <2>4 DEF WorkerConsistent
    <2> QED
      BY <2>1, <2>3, <2>5 DEF Inv, Consistent, CacheFollows, DeletedIsNew, Deleted,
                              WrongNamespaceStates
  <1>7. CASE UninstallFails
    <2>1. /\ w' = None /\ UNCHANGED <<pkg, cache, stream>>
          /\ Put(r) \/ (r # None /\ Put([r EXCEPT !.status = "unfinished"]))
      BY <1>7 DEF UninstallFails, Finish
    <2>2. r # None => [r EXCEPT !.status = "unfinished"] \in Releases
      BY <1>r DEF Releases
    <2>3. InstalledHasRelease'
      BY <1>w, <1>r, <2>1, <2>2, NoneAssumption, PutConsistent
    <2> QED
      BY <2>1, <2>3, IdleConsistent
  <1>8. CASE Commit
    <2>1. /\ w' = None /\ UNCHANGED <<cache, rel, drifted>> /\ w.pc = "commit"
          /\ w.obj = pkg[w.n] => UNCHANGED <<pkg, stream>>
          /\ w.obj # pkg[w.n] => Write({w.n}, [m \in {w.n} |-> w.obj])
      BY <1>8 DEF Commit, At, Finish, helm
    <2>2. FreshSave
      <3>1. w.fresh
        BY <1>8 DEF Commit
      <3> QED
        BY <1>w, <2>1, <3>1 DEF Inv, Consistent, WorkerConsistent
    <2>3. CASE w.obj = pkg[w.n]
      <3>1. UNCHANGED <<pkg, cache, stream>> /\ UNCHANGED <<rel, drifted>>
        BY <2>1, <2>3
      <3> QED
        BY <1>u, <2>1, <3>1, IdleConsistent
    <2>4. CASE w.obj # pkg[w.n]
      <3>1. w.obj \in Objects /\ w.obj # None
        BY <1>w, <2>1 DEF Inv, TypeInv, InstallReady, Workers
      <3>2. /\ pkg'[w.n] = w.obj /\ stream'[w.n] = Append(stream[w.n], w.obj)
            /\ \A m \in Names : m # w.n => pkg'[m] = pkg[m] /\ stream'[m] = stream[m]
        BY <1>n, <2>1, <2>4 DEF Write
      <3>3. stream[w.n] = <<>> /\ pkg[w.n] # None /\ cache[w.n] = pkg[w.n]
        BY <1>n, <2>2 DEF FreshSave, Inv, Consistent, CacheFollows
      <3>4. stream[w.n] \in Seq(Objects \cup {None}) /\ w.obj \in Objects \cup {None}
        BY <1>n, <3>1 DEF Inv, TypeInv, TypeOK
      <3>5. /\ stream'[w.n] # <<>> /\ stream'[w.n][Len(stream'[w.n])] = w.obj
            /\ \A i \in 1..Len(stream'[w.n]) :
                 stream'[w.n][i] # w.obj =>
                    i \in 1..Len(stream[w.n]) /\ stream[w.n][i] = stream'[w.n][i]
        BY <3>2, <3>4, AppendFacts, Zenon
      <3>6. 1..Len(stream[w.n]) = {}
        BY <3>3, EmptySeq
      <3>7. CacheFollows'
        BY <2>1, <3>2, <3>5 DEF CacheFollows, Inv, Consistent
      <3>8. DeletedIsNew'
        <4> SUFFICES ASSUME NEW m \in Names, pkg'[m] # None,
                       cache'[m] = None \/ \E i \in 1..Len(stream'[m]) : stream'[m][i] = None
                     PROVE  pkg'[m].st = ""
          BY DEF DeletedIsNew, Deleted
        <4>1. m # w.n
          BY <2>1, <3>1, <3>3, <3>5, <3>6
        <4> QED
          BY <2>1, <3>2, <4>1 DEF DeletedIsNew, Deleted, Inv, Consistent
      <3>9. WrongNamespaceStates'
        BY <2>2, <3>2 DEF FreshSave, WrongNamespaceStates, Inv, Consistent
      <3>10. InstalledHasRelease'
        BY <2>1, <2>2, <3>2 DEF FreshSave, InstalledHasRelease, HasState, Inv, Consistent
      <3>11. WorkerConsistent'
        BY <2>1 DEF WorkerConsistent
      <3> QED
        BY <3>7, <3>8, <3>9, <3>10, <3>11 DEF Consistent
    <2> QED
      BY <2>3, <2>4
  <1>9. CASE CommitFails
    <2>1. w' = None /\ UNCHANGED <<pkg, cache, stream>> /\ UNCHANGED <<rel, drifted>>
      BY <1>9 DEF CommitFails, Finish, helm
    <2> QED
      BY <1>u, <2>1, IdleConsistent
  <1> QED
    BY <1>4, <1>5, <1>6, <1>7, <1>8, <1>9, WorkerSteps DEF UninstallStep, Inv, TypeInv

\* Consistent is inductive.
LEMMA ConsistentInductive ==
    ASSUME DistinctReleases
    PROVE  /\ Init => Inv
           /\ Inv /\ [Next]_vars => Inv'
  <1>1. ASSUME Init PROVE Inv
    <2>1. TypeInv
      BY <1>1, TypeInductive
    <2>2. Consistent
      BY <1>1 DEF Init, Consistent, CacheFollows, DeletedIsNew, WrongNamespaceStates,
                  WorkerConsistent, InstalledHasRelease, HasState
    <2> QED
      BY <2>1, <2>2 DEF Inv
  <1>2. ASSUME Inv, [Next]_vars PROVE Consistent'
    <2> USE <1>2
    <2>1. CASE User
      BY <2>1, UserConsistent
    <2>2. ASSUME NEW n \in Names, Deliver(n) PROVE Consistent'
      BY <2>2, DeliverConsistent
    <2>3. ASSUME NEW n \in Names, TimerFires(n) PROVE Consistent'
      BY <2>3, Untouched DEF TimerFires, helm
    <2>4. ASSUME NEW n \in Names, Reconcile(n) PROVE Consistent'
      BY <2>4, ReconcileConsistent
    <2>5. CASE BundleEvent
      BY <2>5, Untouched DEF BundleEvent, helm
    <2>6. CASE WorkerStep
      BY <2>6, WorkerStepConsistent
    <2>7. CASE RunJob
      BY <2>7, Untouched DEF RunJob
    <2>8. CASE Crash
      <3>1. w' = None /\ UNCHANGED <<pkg, cache, stream>>
        BY <2>8 DEF Crash
      <3>2. InstalledHasRelease'
        <4>1. CASE UNCHANGED <<rel, drifted>>
          BY <3>1, <4>1 DEF Inv, Consistent, InstalledHasRelease, HasState
        <4>2. ASSUME w \in Workers, NEW q \in Releases, Put(q) PROVE InstalledHasRelease'
          BY <3>1, <4>2, NoneAssumption, PutConsistent
        <4> QED
          BY <2>8, <4>1, <4>2, CrashLeaves DEF Inv
      <3> QED
        BY <3>1, <3>2, IdleConsistent
    <2>9. CASE Restart
      <3>1. w = None /\ w' = w
        BY <2>9 DEF Restart, Inv, Consistent, WorkerConsistent
      <3>2. cache' = pkg /\ pkg' = pkg /\ rel' = rel /\ drifted' = drifted
        BY <2>9 DEF Restart, helm
      <3>3. \A n \in Names : stream'[n] = <<>> /\ 1..Len(stream'[n]) = {}
        BY <2>9, EmptySeq DEF Restart
      <3>4. CacheFollows' /\ DeletedIsNew'
        BY <3>2, <3>3 DEF CacheFollows, DeletedIsNew, Deleted
      <3>5. WrongNamespaceStates' /\ InstalledHasRelease'
        BY <3>2 DEF WrongNamespaceStates, InstalledHasRelease, HasState, Inv, Consistent
      <3>6. WorkerConsistent'
        BY <3>1 DEF WorkerConsistent
      <3> QED
        BY <3>4, <3>5, <3>6 DEF Consistent
    <2>10. ASSUME NEW r \in ReleaseNames, Drift(r) PROVE Consistent'
      <3>1. UNCHANGED <<pkg, cache, stream, w, up>>
        BY <2>10 DEF Drift
      <3>2. ASSUME NEW q \in ReleaseNames, rel[q] # None \/ q \in drifted
            PROVE  rel'[q] # None \/ q \in drifted'
        BY <2>10, <3>2 DEF Drift, Inv, TypeInv, TypeOK
      <3>3. InstalledHasRelease'
        BY <3>1, <3>2, NamesAssumption DEF InstalledHasRelease, HasState, Inv, Consistent
      <3>4. CASE w = None
        BY <3>1, <3>3, <3>4 DEF Inv, Consistent, CacheFollows, DeletedIsNew, Deleted,
                                WrongNamespaceStates, WorkerConsistent
      <3>5. CASE w # None
        <4>1. RelOf[w.n] \in ReleaseNames
          BY <3>5, NamesAssumption DEF Inv, TypeInv, TypeOK, Workers
        <4>2. rel[RelOf[w.n]] = None => rel'[RelOf[w.n]] = None
          BY <2>10, <4>1 DEF Drift, Inv, TypeInv, TypeOK
        <4>3. WorkerConsistent
          BY DEF Inv, Consistent
        <4>4. ASSUME FreshSave PROVE FreshSave'
          BY <3>1, <3>2, <4>1, <4>4 DEF FreshSave
        <4>5. WorkerConsistent'
          BY <3>1, <3>2, <4>1, <4>2, <4>3, <4>4 DEF WorkerConsistent
        <4> QED
          BY <3>1, <3>3, <4>5 DEF Inv, Consistent, CacheFollows, DeletedIsNew, Deleted,
                                  WrongNamespaceStates
      <3> QED
        BY <3>4, <3>5
    <2>11. CASE UNCHANGED vars
      BY <2>11, Untouched DEF vars
    <2> QED
      BY <2>1, <2>2, <2>3, <2>4, <2>5, <2>6, <2>7, <2>8, <2>9, <2>10, <2>11 DEF Next
  <1>3. ASSUME Inv, [Next]_vars PROVE Inv'
    BY <1>2, <1>3, TypeInductive DEF Inv
  <1> QED
    BY <1>1, <1>3

\* If no two Packages share a release, a Package whose status says "installed" has its
\* helm release, unless somebody removed it with helm: no stale cache, conflicting
\* update, crash or late uninstallation can take it away.
THEOREM InstalledSafe ==
    ASSUME DistinctReleases
    PROVE  Spec => []InstalledHasRelease
  <1>1. Inv => InstalledHasRelease
    BY DEF Inv, Consistent
  <1> QED
    BY <1>1, ConsistentInductive, PTL DEF Spec

\* The invariant behind it, which the run Lifecycle checks as well.
THEOREM AlwaysConsistent ==
    ASSUME DistinctReleases
    PROVE  Spec => []Consistent
  <1>1. Inv => Consistent
    BY DEF Inv
  <1> QED
    BY <1>1, ConsistentInductive, PTL DEF Spec

-----------------------------------------------------------------------------
(* What a step may never do.                                               *)

\* Releases are created and changed by helmDriver.Install, and by the failing
\* operations; only an uninstallation takes one away, or somebody who uses helm.
LEMMA ReleasesKept ==
    ASSUME Inv, Next
    PROVE  \/ UNCHANGED <<rel, drifted>>
           \/ /\ w \in Workers /\ (w.pc \in InstallPcs \/ rel[RelOf[w.n]] # None)
              /\ \E q \in Releases : Put(q)
           \/ w \in Workers /\ Put(None) /\ rel[RelOf[w.n]] = None
           \/ w \in Workers /\ Put(None) /\ w.pc = "uninstall"
           \/ \E r \in ReleaseNames : Drift(r)
  <1> DEFINE Kept == UNCHANGED <<rel, drifted>>
             Same == /\ w \in Workers
                     /\ \/ /\ w.pc \in InstallPcs \/ rel[RelOf[w.n]] # None
                           /\ \E q \in Releases : Put(q)
                        \/ Put(None) /\ rel[RelOf[w.n]] = None
                        \/ Put(None) /\ w.pc = "uninstall"
             r == rel[RelOf[w.n]]
  <1>1. CASE User
    BY <1>1 DEF User, UserCreate, UserUpdate, UserDelete, UserWrite, ChangeBundle, helm
  <1>2. ASSUME NEW n \in Names, Deliver(n) \/ TimerFires(n) PROVE Kept
    BY <1>2 DEF Deliver, TimerFires, helm
  <1>3. ASSUME NEW n \in Names, Reconcile(n) PROVE Kept
    BY <1>3 DEF Reconcile, GetFails, BeginUninstall, RejectDeleted, SaveUnresolved,
           ProcessInvalidNamespace, ProcessInitializing, ProcessUpdating,
           DependenciesUnknown, DependenciesReady, DependenciesWaiting, SourceChanged,
           CheckFails, ConfigChanged, NothingToDo, BeginInstall, Save, helm
  <1>4. CASE BundleEvent \/ RunJob \/ Restart
    BY <1>4 DEF BundleEvent, RunJob, Restart, helm
  <1>5. CASE Crash
    BY <1>5, CrashLeaves DEF Inv
  <1>6. ASSUME WorkerStep PROVE Kept \/ Same
    <2>1. w \in Workers /\ w # None
      BY <1>6, WorkerSteps DEF Inv, TypeInv
    <2>2. r \in Releases \cup {None}
      BY <2>1, NamesAssumption DEF Workers, Inv, TypeInv, TypeOK
    <2>3. ASSUME InstallStep
          PROVE  /\ w.pc \in InstallPcs
                 /\ \A status \in {"deployed", "failed", "unfinished"} :
                       /\ Release(status, TargetNs) \in Releases
                       /\ r # None => Release(status, r.ns) \in Releases
      BY <2>3, InstallStepProceeds, InstallTypes DEF Inv, Installing
    <2>4. CASE InstallFails \/ PrepareRelease \/ ReturnCreated \/ ReturnUndone \/ ReturnUpgraded
      BY <2>4 DEF InstallFails, PrepareRelease, ReturnCreated, ReturnUndone, ReturnUpgraded, NoPut
    <2>5. CASE CreateRelease
      <3>1. InstallStep /\ Put(Release("deployed", TargetNs))
        BY <2>5 DEF CreateRelease, InstallStep
      <3> QED
        BY <2>1, <2>3, <3>1
    <2>6. CASE CreateReleaseFails
      <3>1. InstallStep /\ (Put(None) \/ Put(Release("failed", TargetNs))) /\ w.pc = "create"
        BY <2>6 DEF CreateReleaseFails, InstallStep, At
      <3>2. r = None
        BY <2>1, <3>1 DEF Inv, Consistent, WorkerConsistent
      <3> QED
        BY <2>1, <2>3, <3>1, <3>2
    <2>7. CASE UpgradeRelease
      <3>1. InstallStep /\ r # None /\ Put(Release("deployed", r.ns))
        BY <2>7 DEF UpgradeRelease, InstallStep
      <3> QED
        BY <2>1, <2>3, <3>1
    <2>8. CASE UpgradeReleaseFails
      <3>1. InstallStep /\ r # None /\ (Put(r) \/ Put(Release("failed", r.ns)) \/ NoPut)
        BY <2>8 DEF UpgradeReleaseFails, InstallStep
      <3> QED
        BY <2>1, <2>2, <2>3, <3>1 DEF NoPut
    <2>9. CASE Uninstall
      BY <2>1, <2>9 DEF Uninstall, At
    <2>10. CASE UninstallFails
      <3>1. r # None => [r EXCEPT !.status = "unfinished"] \in Releases
        BY <2>2 DEF Releases
      <3>2. Put(r) \/ (r # None /\ Put([r EXCEPT !.status = "unfinished"]))
        BY <2>10 DEF UninstallFails
      <3> QED
        BY <2>1, <2>2, <3>1, <3>2
    <2>11. CASE NothingToUninstall \/ Unlist \/ Commit \/ CommitFails
      BY <2>11 DEF NothingToUninstall, Unlist, Commit, CommitFails, NoPut, helm
    <2> QED
      BY <1>6, <2>4, <2>5, <2>6, <2>7, <2>8, <2>9, <2>10, <2>11 DEF WorkerStep
  <1>7. CASE \E q \in ReleaseNames : Drift(q)
    BY <1>7
  <1> QED
    BY <1>1, <1>2, <1>3, <1>4, <1>5, <1>6, <1>7 DEF Next

\* A release the controller takes away is that of a Package that is gone or new: the
\* uninstallation it belongs to may have begun for an earlier object of the same name,
\* never for the one in use.
THEOREM UninstallsOnlyDeleted ==
    ASSUME DistinctReleases
    PROVE  Spec => NeverUninstallLive
  <1> DEFINE A == \A n \in Names :
                    rel[RelOf[n]] # None /\ rel'[RelOf[n]] = None /\ RelOf[n] \notin drifted' =>
                       pkg[n] = None \/ pkg[n].st = ""
  <1>1. ASSUME Inv, Next PROVE A
    <2> SUFFICES ASSUME NEW n \in Names, rel[RelOf[n]] # None, rel'[RelOf[n]] = None,
                        RelOf[n] \notin drifted'
                 PROVE  pkg[n] = None \/ pkg[n].st = ""
      OBVIOUS
    <2>1. /\ RelOf[n] \in ReleaseNames
          /\ w \in Workers => w.n \in Names /\ RelOf[w.n] \in ReleaseNames
      BY NamesAssumption DEF Workers
    <2>2. rel \in [ReleaseNames -> Releases \cup {None}]
      BY <1>1 DEF Inv, TypeInv, TypeOK
    <2>3. ASSUME w \in Workers, NEW q \in Releases, Put(q) PROVE FALSE
      BY <2>1, <2>2, <2>3, NoneAssumption DEF Put
    <2>4. ASSUME w \in Workers, Put(None), rel[RelOf[w.n]] = None PROVE FALSE
      BY <2>1, <2>2, <2>4 DEF Put
    <2>5. ASSUME w \in Workers, Put(None), w.pc = "uninstall"
          PROVE  pkg[n] = None \/ pkg[n].st = ""
      <3>1. RelOf[n] = RelOf[w.n]
        BY <2>1, <2>2, <2>5 DEF Put
      <3>2. n = w.n
        BY <2>1, <2>5, <3>1 DEF DistinctReleases
      <3> QED
        BY <1>1, <2>5, <3>2, NoneAssumption DEF Inv, Consistent, WorkerConsistent
    <2>6. ASSUME NEW q \in ReleaseNames, Drift(q) PROVE FALSE
      BY <2>1, <2>2, <2>6 DEF Drift
    <2>7. CASE UNCHANGED <<rel, drifted>>
      BY <2>7
    <2> QED
      BY <1>1, <2>3, <2>4, <2>5, <2>6, <2>7, ReleasesKept
  <1>2. Inv /\ [Next]_vars => [A]_vars
    BY <1>1
  <1> QED
    BY <1>2, ConsistentInductive, PTL DEF Spec, NeverUninstallLive

\* The three kinds of steps that write objects.
LEMMA ObjectsKept ==
    ASSUME Inv, Next, NEW n \in Names, pkg[n] # None, pkg'[n] # None, pkg'[n].st # pkg[n].st
    PROVE  <<pkg[n].st, pkg'[n].st>> \in Arcs
  <1>1. CASE User
    <2>1. ASSUME NEW m \in Names, NEW o, UserWrite(m, o)
          PROVE  pkg'[n] = IF n = m THEN o ELSE pkg[n]
      BY <2>1 DEF UserWrite, Write
    <2>2. ASSUME NEW m \in Names, NEW spec, UserCreate(m, spec) PROVE FALSE
      BY <2>1, <2>2 DEF UserCreate
    <2>3. ASSUME NEW m \in Names, NEW spec, UserUpdate(m, spec) PROVE FALSE
      <3>1. [pkg[m] EXCEPT !.spec = spec].st = pkg[m].st
        BY <2>3 DEF UserUpdate, Inv, TypeInv, TypeOK, Objects
      <3> QED
        BY <2>1, <2>3, <3>1 DEF UserUpdate
    <2>4. ASSUME NEW m \in Names, UserDelete(m) PROVE FALSE
      BY <2>1, <2>4 DEF UserDelete
    <2>5. ASSUME NEW b, ChangeBundle(b) PROVE FALSE
      BY <2>5 DEF ChangeBundle
    <2> QED
      BY <1>1, <2>2, <2>3, <2>4, <2>5 DEF User
  <1>2. ASSUME NEW m \in Names, Deliver(m) \/ TimerFires(m) PROVE FALSE
    BY <1>2 DEF Deliver, TimerFires
  <1>3. ASSUME NEW m \in Names, Reconcile(m), ~DependenciesWaiting(m) PROVE FALSE
    BY <1>3 DEF Reconcile, GetFails, BeginUninstall, RejectDeleted, SaveUnresolved,
           ProcessInvalidNamespace, ProcessInitializing, ProcessUpdating,
           DependenciesUnknown, DependenciesReady, SourceChanged,
           CheckFails, ConfigChanged, NothingToDo, BeginInstall, Save
  <1>4. ASSUME NEW m \in Names, DependenciesWaiting(m) PROVE FALSE
    <2>1. PICK D \in SUBSET Creatable(m) :
             Write({DepKey[m][d] : d \in D},
                   [k \in {DepKey[m][d] : d \in D} |->
                      NewObject(DepSpec(m, CHOOSE d \in D : DepKey[m][d] = k))])
      BY <1>4 DEF DependenciesWaiting
    <2>2. n \notin {DepKey[m][d] : d \in D}
      BY DEF Creatable
    <2> QED
      BY <2>1, <2>2 DEF Write
  <1>5. CASE BundleEvent \/ RunJob \/ Restart \/ Crash
    BY <1>5 DEF BundleEvent, RunJob, Restart, Crash
  <1>6. ASSUME WorkerStep, ~Commit PROVE FALSE
    BY <1>6 DEF WorkerStep, InstallFails, PrepareRelease, CreateRelease, ReturnCreated,
           CreateReleaseFails, ReturnUndone, UpgradeRelease, ReturnUpgraded,
           UpgradeReleaseFails, NothingToUninstall, Uninstall, Unlist, UninstallFails,
           CommitFails, Return, Goto
  <1>7. CASE Commit
    <2>1. w # None /\ w.pc = "commit" /\ w.obj # pkg[w.n] /\ Write({w.n}, [m \in {w.n} |-> w.obj])
      BY <1>7 DEF Commit, At
    <2>2. w.fresh
      BY <1>7 DEF Commit
    <2>3. n = w.n /\ pkg'[n] = w.obj
      BY <2>1 DEF Write
    <2>4. FreshSave
      BY <2>1, <2>2 DEF Inv, Consistent, WorkerConsistent
    <2> QED
      BY <2>3, <2>4 DEF FreshSave
  <1>8. ASSUME NEW q \in ReleaseNames, Drift(q) PROVE FALSE
    BY <1>8 DEF Drift
  <1> QED
    BY <1>1, <1>2, <1>3, <1>4, <1>5, <1>6, <1>7, <1>8 DEF Next

\* As long as it exists, a Package moves only along the arcs of the state machine,
\* whatever versions its reconciliations have read.
THEOREM OnlyArcs ==
    ASSUME DistinctReleases
    PROVE  Spec => StatesFollowArcs
  <1> DEFINE A == \A n \in Names : pkg[n] # None /\ pkg'[n] # None /\ pkg'[n].st # pkg[n].st =>
                      <<pkg[n].st, pkg'[n].st>> \in Arcs
  <1>1. Inv /\ [Next]_vars => [A]_vars
    BY ObjectsKept
  <1> QED
    BY <1>1, ConsistentInductive, PTL DEF Spec, StatesFollowArcs
=============================================================================
