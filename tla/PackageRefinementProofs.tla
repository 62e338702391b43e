------------------------ MODULE PackageRefinementProofs ------------------------
(***************************************************************************)
(* PackageLifecycle implements PackageContract, for every set of Packages  *)
(* and every bound.  On top of the invariant of PackageLifecycleProofs the *)
(* refinement needs to know how far behind the cache may be, what has      *)
(* become of the Package an installation works for, and that a release     *)
(* which exists does not count as lost.                                    *)
(***************************************************************************)
EXTENDS PackageLifecycleProofs

InstallsInTime ==
    w # None /\ w.pc \in InstallPcs =>
        pkg[w.n] = None \/ pkg[w.n].st \in {"", "installing", "installed"}

LostIsGone == \A r \in ReleaseNames : rel[r] # None => r \notin drifted

RInv == Inv /\ CacheOneBehind /\ InstallsInTime /\ LostIsGone

-----------------------------------------------------------------------------
(* The cache is at most one state behind.                                  *)

\* The versions after the last deletion show state st; there is a deletion.
Show(s, st) ==
    \A i \in 1..Len(s) : (\A j \in i..Len(s) : s[j] # None) => s[i].st = st
HasGone(s) == \E i \in 1..Len(s) : s[i] = None

\* What a new version at the end does to that.
LEMMA AppendShows ==
    ASSUME NEW S, NEW s \in Seq(S), NEW e \in S
    PROVE  /\ HasGone(s) => HasGone(Append(s, e))
           /\ e = None => \A st : Show(Append(s, e), st)
           /\ s # <<>> /\ s[Len(s)] = None => Show(Append(s, e), e.st) /\ HasGone(s)
           /\ s = <<>> => Show(Append(s, e), e.st)
           /\ Show(s, e.st) => Show(Append(s, e), e.st)
  <1>1. PICK t : t = Append(s, e)
    OBVIOUS
  <1>2. PICK k \in Nat : k = Len(s)
    BY LenProperties
  <1>3. Len(t) = k + 1 /\ t[k + 1] = e /\ \A i \in 1..k : t[i] = s[i]
    BY <1>1, <1>2, AppendProperties
  <1>4. s # <<>> => k \in 1..k
    BY <1>2, EmptySeq
  <1>5. s = <<>> => k = 0
    BY <1>2, EmptySeq
  <1>6. HasGone(s) => HasGone(t)
    BY <1>2, <1>3 DEF HasGone
  <1>7. e = None => \A st : Show(t, st)
    BY <1>3 DEF Show
  <1>8. ASSUME s # <<>>, s[Len(s)] = None PROVE Show(t, e.st) /\ HasGone(s)
    <2>1. k \in 1..k /\ t[k] = None /\ s[k] = None
      BY <1>2, <1>3, <1>4, <1>8
    <2>2. ASSUME NEW i \in 1..(k + 1), \A j \in i..(k + 1) : t[j] # None PROVE t[i].st = e.st
      <3>1. i = k + 1
        BY <2>1, <2>2
      <3> QED
        BY <1>3, <3>1
    <2> QED
      BY <1>2, <1>3, <2>1, <2>2 DEF Show, HasGone
  <1>9. s = <<>> => Show(t, e.st)
    BY <1>3, <1>5 DEF Show
  <1>10. ASSUME Show(s, e.st) PROVE Show(t, e.st)
    <2>1. ASSUME NEW i \in 1..(k + 1), \A j \in i..(k + 1) : t[j] # None PROVE t[i].st = e.st
      <3>1. CASE i = k + 1
        BY <1>3, <3>1
      <3>2. CASE i # k + 1
        <4>1. i \in 1..k /\ t[i] = s[i]
          BY <1>3, <3>2
        <4>2. ASSUME NEW j \in i..k PROVE s[j] # None
          BY <1>3, <2>1, <4>1, <4>2
        <4> QED
          BY <1>2, <1>10, <4>1, <4>2 DEF Show
      <3> QED
        BY <3>1, <3>2
    <2> QED
      BY <1>3, <2>1 DEF Show
  <1> QED
    BY <1>1, <1>6, <1>7, <1>8, <1>9, <1>10

\* What the delivery of the first version does to it.
LEMMA TailShows ==
    ASSUME NEW S, NEW s \in Seq(S), s # <<>>, NEW st, Show(s, st)
    PROVE  /\ Show(Tail(s), st)
           /\ Head(s) # None /\ ~HasGone(Tail(s)) => Head(s).st = st
  <1>1. PICK t : t = Tail(s)
    OBVIOUS
  <1>2. PICK k \in Nat : k + 1 = Len(s)
    <2>1. Len(s) \in Nat \ {0}
      BY EmptySeq
    <2> QED
      BY <2>1
  <1>3. Len(t) = k /\ \A i \in 1..k : t[i] = s[i + 1]
    BY <1>1, <1>2, HeadTailProperties
  <1>4. Head(s) = s[1]
    BY <1>2
  <1>5. ASSUME NEW i \in 1..k, \A j \in i..k : t[j] # None PROVE t[i].st = st
    <2>1. ASSUME NEW j \in (i + 1)..(k + 1) PROVE s[j] # None
      <3>1. j - 1 \in i..k /\ j - 1 \in 1..k /\ (j - 1) + 1 = j
        BY <2>1
      <3> QED
        BY <1>3, <1>5, <3>1
    <2>2. i + 1 \in 1..(k + 1)
      OBVIOUS
    <2> QED
      BY <1>2, <1>3, <2>1, <2>2 DEF Show
  <1>6. ASSUME s[1] # None, \A i \in 1..k : t[i] # None PROVE s[1].st = st
    <2>1. ASSUME NEW j \in 1..(k + 1) PROVE s[j] # None
      <3>1. CASE j = 1
        BY <1>6, <3>1
      <3>2. CASE j # 1
        <4>1. j - 1 \in 1..k /\ (j - 1) + 1 = j
          BY <3>2
        <4> QED
          BY <1>3, <1>6, <4>1
      <3> QED
        BY <3>1, <3>2
    <2>2. 1 \in 1..(k + 1)
      OBVIOUS
    <2> QED
      BY <1>2, <2>1, <2>2 DEF Show
  <1>7. Show(t, st)
    BY <1>3, <1>5 DEF Show
  <1>8. s[1] # None /\ ~HasGone(t) => s[1].st = st
    BY <1>3, <1>6 DEF HasGone
  <1> QED
    BY <1>1, <1>4, <1>7, <1>8

\* CacheOneBehind for one Package, in these words.
Behind(n) ==
    /\ Show(stream[n], pkg[n].st)
    /\ cache[n] # None /\ ~HasGone(stream[n]) /\ pkg[n] # None =>
          cache[n].st = pkg[n].st \/ <<cache[n].st, pkg[n].st>> \in Arcs

\* Both ways to say it agree.
LEMMA BehindWords == CacheOneBehind <=> \A n \in Names : Behind(n)
  BY DEF CacheOneBehind, Behind, Show, HasGone, Deleted

\* Steps that touch neither the objects nor their versions.
LEMMA BehindFrame ==
    ASSUME CacheOneBehind, UNCHANGED <<pkg, cache, stream>>
    PROVE  CacheOneBehind'
  BY DEF CacheOneBehind, Deleted

\* A write that creates objects, deletes them, or keeps their states.
LEMMA BehindWrite ==
    ASSUME Inv, CacheOneBehind, NEW K \in SUBSET Names, NEW new \in [K -> Objects \cup {None}],
           Write(K, new), UNCHANGED cache,
           \A n \in K : new[n] # None =>
               IF pkg[n] = None THEN new[n].st = "" ELSE new[n].st = pkg[n].st
    PROVE  CacheOneBehind'
  <1>1. ASSUME NEW n \in Names PROVE Behind(n)'
    <2>b. Behind(n)
      BY BehindWords
    <2>1. CASE n \notin K
      BY <2>b, <2>1 DEF Write, Behind, HasGone, Show
    <2>2. CASE n \in K
      <3>1. /\ pkg'[n] = new[n] /\ stream'[n] = Append(stream[n], new[n]) /\ cache'[n] = cache[n]
            /\ new[n] \in Objects \cup {None} /\ stream[n] \in Seq(Objects \cup {None})
        BY <2>2 DEF Write, Inv, TypeInv, TypeOK
      <3>2. /\ HasGone(stream[n]) => HasGone(stream'[n])
            /\ new[n] = None => \A st : Show(stream'[n], st)
            /\ stream[n] # <<>> /\ stream[n][Len(stream[n])] = None =>
                  Show(stream'[n], new[n].st) /\ HasGone(stream[n])
            /\ stream[n] = <<>> => Show(stream'[n], new[n].st)
            /\ Show(stream[n], new[n].st) => Show(stream'[n], new[n].st)
        BY <3>1, AppendShows
      <3>3. CASE new[n] = None
        BY <3>1, <3>2, <3>3 DEF Behind
      <3>4. CASE new[n] # None /\ pkg[n] = None
        <4>1. \/ stream[n] = <<>> /\ cache[n] = None
              \/ stream[n] # <<>> /\ stream[n][Len(stream[n])] = None
          BY <3>4 DEF Inv, Consistent, CacheFollows
        <4> QED
          BY <3>1, <3>2, <4>1 DEF Behind
      <3>5. CASE new[n] # None /\ pkg[n] # None
        <4>1. new[n].st = pkg[n].st
          BY <2>2, <3>5
        <4> QED
          BY <2>b, <3>1, <3>2, <3>5, <4>1 DEF Behind
      <3> QED
        BY <3>3, <3>4, <3>5
    <2> QED
      BY <2>1, <2>2
  <1>2. CacheOneBehind' <=> \A n \in Names : Behind(n)'
    BY DEF CacheOneBehind, Behind, Show, HasGone, Deleted
  <1> QED
    BY <1>1, <1>2

\* An event reaches the informer.
LEMMA BehindDeliver ==
    ASSUME Inv, CacheOneBehind, NEW m \in Names, Deliver(m)
    PROVE  CacheOneBehind'
  <1>1. /\ stream[m] # <<>> /\ stream'[m] = Tail(stream[m]) /\ cache'[m] = Head(stream[m])
        /\ stream[m] \in Seq(Objects \cup {None}) /\ pkg' = pkg
        /\ \A k \in Names : k # m => stream'[k] = stream[k] /\ cache'[k] = cache[k]
    BY DEF Deliver, Inv, TypeInv, TypeOK
  <1>2. ASSUME NEW n \in Names PROVE Behind(n)'
    <2>b. Behind(n)
      BY BehindWords
    <2>1. CASE n # m
      BY <1>1, <2>b, <2>1 DEF Behind, HasGone, Show
    <2>2. CASE n = m
      <3>1. /\ Show(stream'[m], pkg[m].st)
            /\ Head(stream[m]) # None /\ ~HasGone(stream'[m]) => Head(stream[m]).st = pkg[m].st
        BY <1>1, <2>b, <2>2, TailShows DEF Behind
      <3> QED
        BY <1>1, <2>2, <3>1 DEF Behind
    <2> QED
      BY <2>1, <2>2
  <1>3. CacheOneBehind' <=> \A n \in Names : Behind(n)'
    BY DEF CacheOneBehind, Behind, Show, HasGone, Deleted
  <1> QED
    BY <1>2, <1>3

\* A status is saved: the copy was the latest version, and no event was pending.
LEMMA BehindCommit ==
    ASSUME Inv, CacheOneBehind, Commit
    PROVE  CacheOneBehind'
  <1>1. w \in Workers /\ w.n \in Names /\ FreshSave /\ cache' = cache
    BY DEF Commit, At, Inv, TypeInv, TypeOK, Consistent, WorkerConsistent, Workers
  <1>2. CASE w.obj = pkg[w.n]
    BY <1>1, <1>2, BehindFrame DEF Commit
  <1>3. CASE w.obj # pkg[w.n]
    <2>1. Write({w.n}, [m \in {w.n} |-> w.obj])
      BY <1>3 DEF Commit
    <2>2. /\ stream[w.n] = <<>> /\ pkg[w.n] # None /\ cache[w.n] = pkg[w.n]
          /\ w.obj.st = pkg[w.n].st \/ <<pkg[w.n].st, w.obj.st>> \in Arcs
      BY <1>1 DEF FreshSave, Inv, Consistent, CacheFollows
    <2>3. /\ pkg'[w.n] = w.obj /\ stream'[w.n] = Append(<<>>, w.obj)
          /\ \A k \in Names : k # w.n => stream'[k] = stream[k] /\ pkg'[k] = pkg[k]
      BY <1>1, <2>1, <2>2 DEF Write
    <2>4. Len(stream'[w.n]) = 1 /\ stream'[w.n][1] = w.obj
      BY <2>3
    <2> QED
      BY <1>1, <2>2, <2>3, <2>4 DEF CacheOneBehind, Deleted
  <1> QED
    BY <1>2, <1>3

\* The Packages dependencies are created under did not exist.
LEMMA BehindDependencies ==
    ASSUME Inv, CacheOneBehind, NEW n \in Names, DependenciesWaiting(n)
    PROVE  CacheOneBehind'
  <1>1. PICK D \in SUBSET Creatable(n) :
           Write({DepKey[n][d] : d \in D},
                 [k \in {DepKey[n][d] : d \in D} |->
                    NewObject(DepSpec(n, CHOOSE d \in D : DepKey[n][d] = k))])
    BY DEF DependenciesWaiting
  <1> DEFINE K == {DepKey[n][d] : d \in D}
             new == [k \in K |-> NewObject(DepSpec(n, CHOOSE d \in D : DepKey[n][d] = k))]
  <1>2. cache[n] \in Objects /\ Source(n) \in Sources /\ cache' = cache
    BY SourceType, NoneAssumption DEF DependenciesWaiting, InState, Inv, TypeInv
  <1>3. D \subseteq PackageNames
    BY <1>2, CatalogAssumption DEF Creatable, Missing
  <1>4. K \in SUBSET Names
    BY <1>3, NamesAssumption
  <1>5. ASSUME NEW k \in K PROVE new[k] \in Objects /\ new[k].st = "" /\ pkg[k] = None
    <2>1. PICK d \in D : d = (CHOOSE x \in D : DepKey[n][x] = k) /\ DepKey[n][d] = k
      OBVIOUS
    <2>2. DepSpec(n, d) \in Specs
      BY <1>2, <1>3, CatalogAssumption DEF DepSpec, Specs, Objects
    <2>3. new[k] = NewObject(DepSpec(n, d))
      BY <2>1
    <2> QED
      BY <2>1, <2>2, <2>3, NewObjectType DEF NewObject, Creatable
  <1>6. new \in [K -> Objects \cup {None}]
    BY <1>5
  <1>7. Write(K, new)
    BY <1>1
  <1> HIDE DEF new, K
  <1> QED
    BY <1>2, <1>4, <1>5, <1>6, <1>7, BehindWrite

\* What users do, and changes of the active bundle.
LEMMA BehindUser ==
    ASSUME Inv, CacheOneBehind, User
    PROVE  CacheOneBehind'
  <1>1. ASSUME NEW n \in Names, NEW o \in Objects \cup {None}, UserWrite(n, o),
               o # None => IF pkg[n] = None THEN o.st = "" ELSE o.st = pkg[n].st
        PROVE  CacheOneBehind'
    <2> DEFINE new == [m \in {n} |-> o]
    <2>1. {n} \in SUBSET Names /\ new \in [{n} -> Objects \cup {None}] /\ new[n] = o
      BY <1>1
    <2>2. Write({n}, new) /\ UNCHANGED cache
      BY <1>1 DEF UserWrite
    <2> HIDE DEF new
    <2> QED
      BY <1>1, <2>1, <2>2, BehindWrite
  <1>2. ASSUME NEW n \in Names, NEW spec \in Wanted[n], UserCreate(n, spec)
        PROVE  CacheOneBehind'
    <2>1. NewObject(spec) \in Objects /\ NewObject(spec).st = ""
      BY CatalogAssumption, NewObjectType DEF NewObject
    <2> QED
      BY <1>1, <1>2, <2>1 DEF UserCreate
  <1>3. ASSUME NEW n \in Names, NEW spec \in Wanted[n], UserUpdate(n, spec)
        PROVE  CacheOneBehind'
    <2>1. pkg[n] \in Objects /\ pkg[n] # None /\ spec \in Specs
      BY <1>3, CatalogAssumption DEF UserUpdate, Inv, TypeInv, TypeOK
    <2>2. [pkg[n] EXCEPT !.spec = spec] \in Objects /\ [pkg[n] EXCEPT !.spec = spec].st = pkg[n].st
      BY <2>1 DEF Objects
    <2> QED
      BY <1>1, <1>3, <2>1, <2>2 DEF UserUpdate
  <1>4. ASSUME NEW n \in Names, UserDelete(n) PROVE CacheOneBehind'
    BY <1>1, <1>4 DEF UserDelete
  <1>5. ASSUME NEW b, ChangeBundle(b) PROVE CacheOneBehind'
    BY <1>5, BehindFrame DEF ChangeBundle
  <1> QED
    BY <1>2, <1>3, <1>4, <1>5 DEF User

\* All steps.
LEMMA BehindStep ==
    ASSUME Inv, CacheOneBehind, Next
    PROVE  CacheOneBehind'
  <1>1. CASE User
    BY <1>1, BehindUser
  <1>2. ASSUME NEW n \in Names, Deliver(n) PROVE CacheOneBehind'
    BY <1>2, BehindDeliver
  <1>3. ASSUME NEW n \in Names, TimerFires(n) PROVE CacheOneBehind'
    BY <1>3, BehindFrame DEF TimerFires
  <1>4. ASSUME NEW n \in Names, Reconcile(n) PROVE CacheOneBehind'
    <2>1. CASE DependenciesWaiting(n)
      BY <2>1, BehindDependencies
    <2>2. CASE ~DependenciesWaiting(n)
      <3>1. UNCHANGED <<pkg, cache, stream>>
        BY <1>4, <2>2 DEF Reconcile, GetFails, BeginUninstall, RejectDeleted, SaveUnresolved,
               ProcessInvalidNamespace, ProcessInitializing, ProcessUpdating,
               DependenciesUnknown, DependenciesReady, SourceChanged,
               CheckFails, ConfigChanged, NothingToDo, BeginInstall, Save
      <3> QED
        BY <3>1, BehindFrame
    <2> QED
      BY <2>1, <2>2
  <1>5. CASE BundleEvent \/ RunJob \/ Crash
    BY <1>5, BehindFrame DEF BundleEvent, RunJob, Crash
  <1>6. CASE Restart
    <2>1. cache' = pkg' /\ \A n \in Names : stream'[n] = <<>>
      BY <1>6 DEF Restart
    <2>2. \A n \in Names : Len(stream'[n]) = 0
      BY <2>1, EmptySeq
    <2> QED
      BY <2>1, <2>2 DEF CacheOneBehind
  <1>7. CASE WorkerStep
    <2>1. CASE Commit
      BY <2>1, BehindCommit
    <2>2. CASE ~Commit
      <3>1. UNCHANGED <<pkg, cache, stream>>
        BY <1>7, <2>2 DEF WorkerStep, InstallFails, PrepareRelease, CreateRelease,
               ReturnCreated, CreateReleaseFails, ReturnUndone, UpgradeRelease, ReturnUpgraded,
               UpgradeReleaseFails, NothingToUninstall, Uninstall, Unlist, UninstallFails,
               CommitFails, Return, Goto
      <3> QED
        BY <3>1, BehindFrame
    <2> QED
      BY <2>1, <2>2
  <1>8. ASSUME NEW r \in ReleaseNames, Drift(r) PROVE CacheOneBehind'
    BY <1>8, BehindFrame DEF Drift
  <1> QED
    BY <1>1, <1>2, <1>3, <1>4, <1>5, <1>6, <1>7, <1>8 DEF Next

\* The cache never hides two changes of a Package's state.
THEOREM CacheIsClose ==
    ASSUME DistinctReleases
    PROVE  Spec => []CacheOneBehind
  <1>1. Init => Inv /\ CacheOneBehind
    <2>1. ASSUME Init PROVE CacheOneBehind
      <3>1. pkg = cache /\ \A n \in Names : stream[n] = <<>>
        BY <2>1 DEF Init
      <3>2. \A n \in Names : Len(stream[n]) = 0
        BY <3>1, EmptySeq
      <3> QED
        BY <3>1, <3>2 DEF CacheOneBehind
    <2> QED
      BY <2>1, ConsistentInductive
  <1>2. Inv /\ CacheOneBehind /\ [Next]_vars => Inv' /\ CacheOneBehind'
    <2>1. ASSUME Inv, CacheOneBehind, UNCHANGED vars PROVE CacheOneBehind'
      BY <2>1, BehindFrame DEF vars
    <2> QED
      BY <2>1, BehindStep, ConsistentInductive
  <1> QED
    BY <1>1, <1>2, PTL DEF Spec

-----------------------------------------------------------------------------
(* Installations and releases.                                             *)

\* An installation begins on a copy that is at most one state behind, and until it ends
\* only users touch the Package it works for.
LEMMA InTimeStep ==
    ASSUME RInv, Next
    PROVE  InstallsInTime'
  <1> USE DEF RInv
  <1>1. CASE User
    <2>1. ASSUME NEW n \in Names, NEW o, UserWrite(n, o),
                 o # None => o.st = "" \/ (pkg[n] # None /\ o.st = pkg[n].st)
          PROVE  InstallsInTime'
      <3>1. w' # None => w # None /\ w'.n = w.n /\ w'.pc = w.pc /\ w.n \in Names
        BY <2>1, NoneAssumption DEF UserWrite, Outdate, Inv, TypeInv, TypeOK, Workers
      <3>2. \A m \in Names : pkg'[m] = IF m = n THEN o ELSE pkg[m]
        BY <2>1 DEF UserWrite, Write
      <3> QED
        BY <2>1, <3>1, <3>2 DEF InstallsInTime
    <2>2. ASSUME NEW n \in Names, NEW spec, UserCreate(n, spec) PROVE InstallsInTime'
      BY <2>1, <2>2 DEF UserCreate, NewObject
    <2>3. ASSUME NEW n \in Names, NEW spec, UserUpdate(n, spec) PROVE InstallsInTime'
      <3>1. [pkg[n] EXCEPT !.spec = spec].st = pkg[n].st
        BY <2>3 DEF UserUpdate, Inv, TypeInv, TypeOK, Objects
      <3> QED
        BY <2>1, <2>3, <3>1 DEF UserUpdate
    <2>4. ASSUME NEW n \in Names, UserDelete(n) PROVE InstallsInTime'
      BY <2>1, <2>4 DEF UserDelete
    <2>5. ASSUME NEW b, ChangeBundle(b) PROVE InstallsInTime'
      BY <2>5 DEF ChangeBundle, InstallsInTime
    <2> QED
      BY <1>1, <2>2, <2>3, <2>4, <2>5 DEF User
  <1>2. ASSUME NEW n \in Names, Deliver(n) \/ TimerFires(n) PROVE InstallsInTime'
    BY <1>2 DEF Deliver, TimerFires, InstallsInTime
  <1>3. ASSUME NEW n \in Names, Reconcile(n), ~BeginInstall(n) PROVE InstallsInTime'
    <2>1. ASSUME NEW pc, NEW o, NEW src, NEW again, Hold(pc, n, o, src, again) PROVE w'.pc = pc
      BY <2>1 DEF Hold
    <2>2. ASSUME NEW o, NEW again, Save(n, o, again) PROVE w'.pc = "commit"
      BY <2>1, <2>2 DEF Save
    <2>3. CASE GetFails(n) \/ RejectDeleted(n) \/ NothingToDo(n)
      BY <2>3 DEF GetFails, RejectDeleted, NothingToDo, Take, InstallsInTime, InstallPcs
    <2>4. CASE BeginUninstall(n)
      BY <2>1, <2>4 DEF BeginUninstall, InstallsInTime, InstallPcs
    <2>5. CASE DependenciesWaiting(n)
      BY <2>1, <2>5 DEF DependenciesWaiting, InstallsInTime, InstallPcs
    <2>6. CASE ProcessInvalidNamespace(n)
      BY <2>2, <2>6 DEF ProcessInvalidNamespace, Take, InstallsInTime, InstallPcs
    <2>7. CASE SaveUnresolved(n) \/ ProcessInitializing(n) \/ ProcessUpdating(n)
      BY <2>2, <2>7 DEF SaveUnresolved, ProcessInitializing, ProcessUpdating, InstallsInTime, InstallPcs
    <2>8. CASE DependenciesUnknown(n) \/ DependenciesReady(n) \/ SourceChanged(n)
      BY <2>2, <2>8 DEF DependenciesUnknown, DependenciesReady, SourceChanged, InstallsInTime, InstallPcs
    <2>9. CASE CheckFails(n) \/ ConfigChanged(n)
      BY <2>2, <2>9 DEF CheckFails, ConfigChanged, InstallsInTime, InstallPcs
    <2> QED
      BY <1>3, <2>3, <2>4, <2>5, <2>6, <2>7, <2>8, <2>9 DEF Reconcile
  <1>4. ASSUME NEW n \in Names, BeginInstall(n) PROVE InstallsInTime'
    <2>1. w'.n = n /\ pkg' = pkg /\ cache[n] # None /\ cache[n].st = "installing"
      BY <1>4 DEF BeginInstall, Hold, InState
    <2>2. CASE pkg[n] = None
      BY <2>1, <2>2 DEF InstallsInTime
    <2>3. CASE pkg[n] # None /\ Deleted(n)
      BY <2>1, <2>3 DEF Inv, Consistent, DeletedIsNew, InstallsInTime
    <2>4. CASE pkg[n] # None /\ ~Deleted(n)
      <3>1. pkg[n].st = "installing" \/ <<"installing", pkg[n].st>> \in Arcs
        BY <2>1, <2>4 DEF CacheOneBehind
      <3>2. pkg[n].st \in {"installing", "installed"}
        BY <3>1 DEF Arcs
      <3> QED
        BY <2>1, <3>2 DEF InstallsInTime
    <2> QED
      BY <2>2, <2>3, <2>4
  <1>5. CASE BundleEvent \/ RunJob \/ Restart
    BY <1>5 DEF BundleEvent, RunJob, Restart, InstallsInTime
  <1>6. CASE Crash
    BY <1>6 DEF Crash, InstallsInTime
  <1>7. CASE WorkerStep
    <2>1. w \in Workers
      BY <1>7, WorkerSteps DEF Inv, TypeInv
    <2>2. CASE InstallStep
      <3>1. Installing /\ Proceeds
        BY <2>2, InstallStepProceeds
      <3>2. UNCHANGED pkg /\ w'.n = w.n
        BY <2>1, <3>1 DEF Proceeds, Goto, Return, Workers
      <3> QED
        BY <3>1, <3>2 DEF Installing, InstallsInTime
    <2>3. CASE Uninstall
      <3>1. w'.pc = "unlist"
        BY <2>1, <2>3 DEF Uninstall, Workers
      <3> QED
        BY <3>1 DEF InstallsInTime, InstallPcs
    <2>4. CASE NothingToUninstall \/ Unlist \/ UninstallFails \/ Commit \/ CommitFails
      <3>1. w' = None
        BY <2>4 DEF NothingToUninstall, Unlist, UninstallFails, Commit, CommitFails, Finish
      <3> QED
        BY <3>1 DEF InstallsInTime
    <2> QED
      BY <1>7, <2>2, <2>3, <2>4, WorkerSteps DEF UninstallStep, Inv, TypeInv
  <1>8. ASSUME NEW r \in ReleaseNames, Drift(r) PROVE InstallsInTime'
    BY <1>8 DEF Drift, InstallsInTime
  <1> QED
    BY <1>1, <1>2, <1>3, <1>4, <1>5, <1>6, <1>7, <1>8 DEF Next

\* What is put back is no longer lost.
LEMMA LostStep ==
    ASSUME RInv, Next
    PROVE  LostIsGone'
  <1> USE DEF RInv
  <1>1. /\ rel \in [ReleaseNames -> Releases \cup {None}]
        /\ w \in Workers => RelOf[w.n] \in ReleaseNames
    BY NamesAssumption DEF Inv, TypeInv, TypeOK, Workers
  <1>2. CASE UNCHANGED <<rel, drifted>>
    BY <1>2 DEF LostIsGone
  <1>3. ASSUME w \in Workers, NEW q, Put(q) PROVE LostIsGone'
    BY <1>1, <1>3 DEF Put, LostIsGone
  <1>4. ASSUME NEW r \in ReleaseNames, Drift(r) PROVE LostIsGone'
    BY <1>1, <1>4 DEF Drift, LostIsGone
  <1> QED
    BY <1>2, <1>3, <1>4, ReleasesKept

\* The invariant the refinement rests on.
LEMMA RefinementInvariant ==
    ASSUME DistinctReleases
    PROVE  /\ Init => RInv
           /\ RInv /\ [Next]_vars => RInv'
  <1>1. ASSUME Init PROVE RInv
    <2>1. pkg = cache /\ w = None /\ drifted = {} /\ \A n \in Names : stream[n] = <<>>
      BY <1>1 DEF Init
    <2>2. \A n \in Names : Len(stream[n]) = 0
      BY <2>1, EmptySeq
    <2> QED
      BY <1>1, <2>1, <2>2, ConsistentInductive DEF RInv, CacheOneBehind, InstallsInTime, LostIsGone
  <1>2. ASSUME RInv, Next PROVE RInv'
    BY <1>2, ConsistentInductive, BehindStep, InTimeStep, LostStep DEF RInv
  <1>3. ASSUME RInv, UNCHANGED vars PROVE RInv'
    <2>1. Inv' /\ CacheOneBehind'
      BY <1>3, ConsistentInductive, BehindFrame DEF RInv, vars
    <2> QED
      BY <1>3, <2>1 DEF RInv, InstallsInTime, LostIsGone, vars
  <1> QED
    BY <1>1, <1>2, <1>3

-----------------------------------------------------------------------------
(* Every step of the controller is a step of the contract for each Package.*)

\* No step writes objects and releases at once.
LEMMA ObjectsOrReleases ==
    ASSUME Inv, Next
    PROVE  UNCHANGED pkg \/ UNCHANGED <<rel, drifted>>
  <1>1. CASE User
    BY <1>1 DEF User, UserCreate, UserUpdate, UserDelete, UserWrite, ChangeBundle, helm
  <1>2. ASSUME NEW n \in Names, Deliver(n) \/ TimerFires(n) \/ Reconcile(n)
        PROVE  UNCHANGED <<rel, drifted>>
    BY <1>2 DEF Deliver, TimerFires, Reconcile, GetFails, BeginUninstall, RejectDeleted,
           SaveUnresolved, ProcessInvalidNamespace, ProcessInitializing, ProcessUpdating,
           DependenciesUnknown, DependenciesReady, DependenciesWaiting, SourceChanged,
           CheckFails, ConfigChanged, NothingToDo, BeginInstall, Save, helm
  <1>3. CASE BundleEvent \/ RunJob \/ Restart \/ Crash
    BY <1>3 DEF BundleEvent, RunJob, Restart, Crash
  <1>4. CASE WorkerStep
    BY <1>4 DEF WorkerStep, InstallFails, PrepareRelease, CreateRelease, ReturnCreated,
           CreateReleaseFails, ReturnUndone, UpgradeRelease, ReturnUpgraded,
           UpgradeReleaseFails, NothingToUninstall, Uninstall, Unlist, UninstallFails, Commit,
           CommitFails, Return, Goto, helm
  <1>5. ASSUME NEW r \in ReleaseNames, Drift(r) PROVE UNCHANGED pkg
    BY <1>5 DEF Drift
  <1> QED
    BY <1>1, <1>2, <1>3, <1>4, <1>5 DEF Next

\* Whoever creates a Package, it begins without a state.
LEMMA CreatedIsNew ==
    ASSUME Inv, Next, NEW n \in Names, pkg[n] = None, pkg'[n] # None
    PROVE  pkg'[n].st = ""
  <1>1. CASE User
    <2>1. ASSUME NEW m \in Names, NEW o, UserWrite(m, o)
          PROVE  pkg'[n] = IF n = m THEN o ELSE pkg[n]
      BY <2>1 DEF UserWrite, Write
    <2>2. ASSUME NEW m \in Names, NEW spec, UserCreate(m, spec) PROVE pkg'[n].st = ""
      <3>1. pkg'[n] = NewObject(spec)
        BY <2>1, <2>2 DEF UserCreate
      <3>2. NewObject(spec).st = ""
        BY DEF NewObject
      <3> QED
        BY <3>1, <3>2
    <2>3. ASSUME NEW m \in Names, NEW spec, UserUpdate(m, spec) PROVE FALSE
      BY <2>1, <2>3 DEF UserUpdate
    <2>4. ASSUME NEW m \in Names, UserDelete(m) PROVE FALSE
      BY <2>1, <2>4 DEF UserDelete
    <2>5. ASSUME NEW b, ChangeBundle(b) PROVE FALSE
      BY <2>5 DEF ChangeBundle
    <2> QED
      BY <1>1, <2>2, <2>3, <2>4, <2>5 DEF User
  <1>2. ASSUME NEW m \in Names, Deliver(m) \/ TimerFires(m) PROVE FALSE
    BY <1>2 DEF Deliver, TimerFires
  <1>3. ASSUME NEW m \in Names, Reconcile(m), ~DependenciesWaiting(m) PROVE FALSE
    BY <1>3 DEF Reconcile, GetFails, BeginUninstall, RejectDeleted, SaveUnresolved,
           ProcessInvalidNamespace, ProcessInitializing, ProcessUpdating,
           DependenciesUnknown, DependenciesReady, SourceChanged,
           CheckFails, ConfigChanged, NothingToDo, BeginInstall, Save
  <1>4. ASSUME NEW m \in Names, DependenciesWaiting(m) PROVE pkg'[n].st = ""
    <2>1. PICK D \in SUBSET Creatable(m) :
             Write({DepKey[m][d] : d \in D},
                   [k \in {DepKey[m][d] : d \in D} |->
                      NewObject(DepSpec(m, CHOOSE d \in D : DepKey[m][d] = k))])
      BY <1>4 DEF DependenciesWaiting
    <2>2. n \in {DepKey[m][d] : d \in D}
      BY <2>1 DEF Write
    <2> QED
      BY <2>1, <2>2 DEF Write, NewObject
  <1>5. CASE BundleEvent \/ RunJob \/ Restart \/ Crash
    BY <1>5 DEF BundleEvent, RunJob, Restart, Crash
  <1>6. ASSUME WorkerStep, ~Commit PROVE FALSE
    BY <1>6 DEF WorkerStep, InstallFails, PrepareRelease, CreateRelease, ReturnCreated,
           CreateReleaseFails, ReturnUndone, UpgradeRelease, ReturnUpgraded,
           UpgradeReleaseFails, NothingToUninstall, Uninstall, Unlist, UninstallFails,
           CommitFails, Return, Goto
  <1>7. ASSUME Commit PROVE FALSE
    <2>1. w # None /\ w.pc = "commit" /\ w.fresh
      BY <1>7 DEF Commit, At
    <2>2. pkg[w.n] # None
      BY <2>1 DEF Inv, Consistent, WorkerConsistent, FreshSave
    <2> QED
      BY <1>7, <2>2 DEF Commit, Write
  <1>8. ASSUME NEW q \in ReleaseNames, Drift(q) PROVE FALSE
    BY <1>8 DEF Drift
  <1> QED
    BY <1>1, <1>2, <1>3, <1>4, <1>5, <1>6, <1>7, <1>8 DEF Next

\* The release of a Package stays, appears, is taken away from a Package that is gone or
\* new, or is lost.
LEMMA ReleaseStep ==
    ASSUME DistinctReleases, RInv, Next, NEW n \in Names
    PROVE  LET r == RelOf[n]
               same == (rel'[r] = None <=> rel[r] = None) /\ (r \in drifted' <=> r \in drifted)
           IN  \/ same
               \/ /\ pkg[n] = None \/ pkg[n].st \in {"", "installing", "installed"}
                  /\ rel'[r] # None /\ r \notin drifted'
               \/ /\ pkg[n] = None \/ pkg[n].st = ""
                  /\ rel'[r] = None /\ (r \in drifted' <=> r \in drifted)
               \/ rel[r] # None /\ rel'[r] = None /\ r \in drifted'
  <1> USE DEF RInv
  <1> DEFINE r == RelOf[n]
  <1>1. /\ r \in ReleaseNames /\ rel \in [ReleaseNames -> Releases \cup {None}]
        /\ w \in Workers => w.n \in Names /\ RelOf[w.n] \in ReleaseNames /\ w # None
    BY NamesAssumption, NoneAssumption DEF Inv, TypeInv, TypeOK, Workers
  <1>2. CASE UNCHANGED <<rel, drifted>>
    BY <1>2
  <1>3. ASSUME NEW q \in ReleaseNames, Drift(q)
        PROVE  \/ rel'[r] = rel[r] /\ (r \in drifted' <=> r \in drifted)
               \/ rel[r] # None /\ rel'[r] = None /\ r \in drifted'
    BY <1>1, <1>3 DEF Drift
  <1>4. ASSUME w \in Workers, w.n # n, NEW q, Put(q)
        PROVE  rel'[r] = rel[r] /\ (r \in drifted' <=> r \in drifted)
    <2>1. RelOf[w.n] # r
      BY <1>1, <1>4 DEF DistinctReleases
    <2> QED
      BY <1>1, <1>4, <2>1 DEF Put
  <1>5. ASSUME w \in Workers, w.n = n, NEW q \in Releases, Put(q)
        PROVE  rel'[r] # None /\ r \notin drifted'
    BY <1>1, <1>5, NoneAssumption DEF Put
  <1>6. ASSUME w \in Workers, w.n = n, Put(None)
        PROVE  rel'[r] = None /\ drifted' = drifted
    BY <1>1, <1>6 DEF Put
  <1>7. CASE /\ w \in Workers /\ (w.pc \in InstallPcs \/ rel[RelOf[w.n]] # None)
             /\ \E q \in Releases : Put(q)
    <2>1. CASE w.n # n
      BY <1>4, <1>7, <2>1
    <2>2. CASE w.n = n /\ w.pc \in InstallPcs
      BY <1>1, <1>5, <1>7, <2>2 DEF InstallsInTime
    <2>3. CASE w.n = n /\ rel[r] # None
      BY <1>1, <1>5, <1>7, <2>3 DEF LostIsGone
    <2> QED
      BY <1>7, <2>1, <2>2, <2>3
  <1>8. CASE w \in Workers /\ Put(None) /\ rel[RelOf[w.n]] = None
    BY <1>4, <1>6, <1>8
  <1>9. CASE w \in Workers /\ Put(None) /\ w.pc = "uninstall"
    <2>1. pkg[w.n] = None \/ pkg[w.n].st = ""
      BY <1>1, <1>9 DEF Inv, Consistent, WorkerConsistent
    <2> QED
      BY <1>4, <1>6, <1>9, <2>1
  <1> QED
    BY <1>2, <1>3, <1>7, <1>8, <1>9, ReleasesKept

\* A step of the controller, seen through the contract.
LEMMA ContractStep ==
    ASSUME DistinctReleases, RInv, RInv', Next
    PROVE  Contract!Next
  <1> USE DEF RInv
  <1> DEFINE Status(p) == IF p = None THEN "absent" ELSE p.st
  <1>1. /\ \A n \in Names : pkg[n] \in Objects \cup {None} /\ pkg'[n] \in Objects \cup {None}
    BY DEF Inv, TypeInv, TypeOK
  <1>2. \A n \in Names : Status(pkg'[n]) \in Contract!Statuses
    BY <1>1 DEF Objects, States, Contract!Statuses
  <1>3. \A n \in Names : pkg[n] # None => pkg[n].st # "absent"
    BY <1>1 DEF Objects, States
  <1>4. ASSUME NEW n \in Names
        PROVE  Contract!Step(n) \/ Contract!Rest(n)
    <2>1. CASE pkg'[n] = pkg[n]
      <3> DEFINE r == RelOf[n]
      <3>1. Contract!SameStatus(n)
        BY <2>1 DEF Contract!SameStatus
      <3>2. ASSUME rel'[r] = None <=> rel[r] = None, r \in drifted' <=> r \in drifted
            PROVE  Contract!Rest(n)
        <4>1. (rel'[r] # None) = (rel[r] # None) /\ (r \in drifted') = (r \in drifted)
          BY <3>2
        <4> QED
          BY <3>1, <4>1, Zenon DEF Contract!Rest, Contract!SameRelease
      <3>3. ASSUME pkg[n] = None \/ pkg[n].st \in {"", "installing", "installed"},
                   rel'[r] # None, r \notin drifted'
            PROVE  Contract!Install(n)
        <4>1. rel'[r] # None /\ r \notin drifted'
          BY <3>3
        <4>2. Contract!MayInstall(n)
          BY <3>3 DEF Contract!MayInstall
        <4> QED
          BY <3>1, <4>1, <4>2, Zenon DEF Contract!Install
      <3>4. ASSUME pkg[n] = None \/ pkg[n].st = "", rel'[r] = None,
                   r \in drifted' <=> r \in drifted
            PROVE  Contract!Uninstall(n)
        <4>1. rel'[r] = None /\ (r \in drifted' <=> r \in drifted)
          BY <3>4
        <4>2. Contract!MayUninstall(n)
          BY <3>4 DEF Contract!MayUninstall
        <4>3. (r \in drifted') = (r \in drifted)
          BY <4>1
        <4> QED
          BY <3>1, <4>1, <4>2, <4>3, Zenon DEF Contract!Uninstall
      <3>5. ASSUME rel[r] # None, rel'[r] = None, r \in drifted'
            PROVE  Contract!Lose(n)
        BY <3>1, <3>5, Zenon DEF Contract!Lose
      <3> HIDE DEF r
      <3>6. \/ (rel'[r] = None <=> rel[r] = None) /\ (r \in drifted' <=> r \in drifted)
            \/ /\ pkg[n] = None \/ pkg[n].st \in {"", "installing", "installed"}
               /\ rel'[r] # None /\ r \notin drifted'
            \/ /\ pkg[n] = None \/ pkg[n].st = ""
               /\ rel'[r] = None /\ (r \in drifted' <=> r \in drifted)
            \/ rel[r] # None /\ rel'[r] = None /\ r \in drifted'
        BY ReleaseStep, Zenon DEF r
      <3> QED
        BY <3>2, <3>3, <3>4, <3>5, <3>6, Zenon DEF Contract!Step
    <2>2. CASE pkg'[n] # pkg[n]
      <3>1. UNCHANGED <<rel, drifted>>
        BY <2>2, ObjectsOrReleases
      <3>2. Contract!SameRelease(n)
        BY <3>1 DEF Contract!SameRelease
      <3>3. CASE pkg[n] = None
        <4>1. pkg'[n] # None /\ pkg'[n].st = ""
          BY <2>2, <3>3, CreatedIsNew
        <4> QED
          BY <3>2, <3>3, <4>1 DEF Contract!Step, Contract!Create
      <3>4. CASE pkg[n] # None /\ pkg'[n] = None
        BY <1>3, <3>2, <3>4 DEF Contract!Step, Contract!Delete
      <3>5. CASE pkg[n] # None /\ pkg'[n] # None /\ pkg'[n].st = pkg[n].st
        BY <3>2, <3>5 DEF Contract!Rest, Contract!SameStatus
      <3>6. CASE pkg[n] # None /\ pkg'[n] # None /\ pkg'[n].st # pkg[n].st
        <4>1. <<pkg[n].st, pkg'[n].st>> \in Contract!Order
          BY <3>6, ObjectsKept DEF Arcs, Contract!Order
        <4>2. pkg'[n].st = "installed" => rel[RelOf[n]] # None \/ RelOf[n] \in drifted
          BY <3>1, <3>6 DEF Inv, Consistent, InstalledHasRelease, HasState
        <4> QED
          BY <3>2, <3>6, <4>1, <4>2 DEF Contract!Step, Contract!Advance
      <3> QED
        BY <3>3, <3>4, <3>5, <3>6
    <2> QED
      BY <2>1, <2>2
  <1> QED
    BY <1>2, <1>4 DEF Contract!Next

\* The controller, with its caches, queues, retries, crashes and slow helm operations,
\* implements the contract.
THEOREM LifecycleImplementsContract ==
    ASSUME DistinctReleases
    PROVE  Spec => ImplementsContract
  <1>1. Init => Contract!Init
    <2> SUFFICES ASSUME Init PROVE Contract!Init
      OBVIOUS
    <2>1. ASSUME NEW n \in Names
          PROVE  /\ (IF pkg[n] = None THEN "absent" ELSE pkg[n].st) = "absent"
                 /\ (rel[RelOf[n]] # None) = FALSE /\ (RelOf[n] \in drifted) = FALSE
      BY NamesAssumption DEF Init
    <2> QED
      BY <2>1, Zenon DEF Contract!Init
  <1>2. RInv /\ RInv' /\ [Next]_vars => [Contract!Next]_(Contract!vars)
    <2>1. UNCHANGED vars => UNCHANGED Contract!vars
      BY DEF vars, Contract!vars
    <2> QED
      BY <2>1, ContractStep
  <1> QED
    BY <1>1, <1>2, RefinementInvariant, PTL DEF Spec, ImplementsContract, Contract!Spec
=============================================================================
