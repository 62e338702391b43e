------------------------ MODULE BundlePublicationProofs ------------------------
(***************************************************************************)
(* What the signature of a bundle is good for, for every registry, every   *)
(* sequence of input files and every number of changes by users: clusters  *)
(* accept what the generator publishes, what they have stored stays        *)
(* acceptable, and whatever they have is what the generator signed.  Then  *)
(* what the generator signs: that it answers the requests of the input     *)
(* file, and records for each version the chart of that version.           *)
(***************************************************************************)
EXTENDS BundlePublication, WellFoundedInduction, TLAPS

BundleFields == {"name", "namespace", "generated", "status", "minVersion", "excludes", "sig",
                 "other", "packages"}
ProcessFields == {"pc", "files", "file", "index", "tag", "name", "versions", "packages",
                  "bundle", "annotations", "unpacked", "moved", "lost"}

\* What the generator signs.
Signed(c) ==
    /\ DOMAIN c = BundleFields
    /\ c.excludes = Excludes /\ c.name.kube # None
    /\ c.sig = [key |-> KmsKey, digest |-> GetDigest(c)]

Published(b) == \E c \in signed : b = serializeBundle(c)

\* A signature of the trusted key is one the generator has made.
Known(b) == b.sig.key = TrustedKey => \E c \in signed : c.sig = b.sig

ProcessInv ==
    g # None =>
        /\ DOMAIN g = ProcessFields
        /\ g.files \in Invocations /\ g.file \in 1..Len(g.files)
        /\ g.pc \in {"lookup", "chart", "sign"} => g.name.kube # None
        /\ g.pc = "write" => g.bundle \in signed
        /\ g.pc = "done" => Published(out)

ObjectInv == obj # None => DOMAIN obj = BundleFields /\ Admitted(obj) /\ Known(obj)

PInv ==
    /\ \A c \in signed : Signed(c)
    /\ ProcessInv
    /\ latest # None => Published(latest)
    /\ ObjectInv

-----------------------------------------------------------------------------
(* The hash.                                                               *)

\* GetDigest looks at the name, the namespace, the excludes and the packages only.
LEMMA DigestFields == Fields \ AlwaysExcluded = {"name", "namespace", "excludes", "packages"}
  BY DEF Fields, AlwaysExcluded

\* Bundles that agree on these have one hash.
LEMMA SameDigest ==
    ASSUME NEW b, NEW c, b.name = c.name, b.namespace = c.namespace,
           b.excludes = c.excludes, b.packages = c.packages
    PROVE  GetDigest(b) = GetDigest(c)
  <1>1. Selected(b) = Selected(c)
    BY DEF Selected
  <1>2. \A f \in Fields \ AlwaysExcluded : b[f] = c[f]
    BY DigestFields
  <1>3. [f \in Fields \ AlwaysExcluded |->
            IF f = "packages" /\ b.packages # None
            THEN [i \in DOMAIN b.packages |-> Strip(b.packages[i], Selected(b))] ELSE b[f]]
      = [f \in Fields \ AlwaysExcluded |->
            IF f = "packages" /\ c.packages # None
            THEN [i \in DOMAIN c.packages |-> Strip(c.packages[i], Selected(c))] ELSE c[f]]
    BY <1>1, <1>2
  <1> QED
    BY <1>1, <1>3 DEF GetDigest

\* What is hashed of a bundle on which the query succeeds.
Body(x) ==
    [f \in Fields \ AlwaysExcluded |->
        IF f = "packages" /\ x.packages # None
        THEN [i \in DOMAIN x.packages |-> Strip(x.packages[i], Selected(x))] ELSE x[f]]

\* The parts of it.
LEMMA BodyParts ==
    ASSUME NEW x
    PROVE  Body(x).name = x.name /\ Body(x).namespace = x.namespace /\ Body(x).excludes = x.excludes
  BY DigestFields DEF Body

\* Of the packages it keeps what the selectors leave.
LEMMA BodyPackages ==
    ASSUME NEW x, x.packages # None
    PROVE  /\ DOMAIN Body(x).packages = DOMAIN x.packages
           /\ \A i \in DOMAIN x.packages :
                 Body(x).packages[i] = Strip(x.packages[i], Selected(x))
  <1>1. Body(x).packages = [i \in DOMAIN x.packages |-> Strip(x.packages[i], Selected(x))]
    BY DigestFields DEF Body
  <1> QED
    BY <1>1

\* Equal hashes are hashes of equal bodies, or of two errors.
LEMMA DigestBodies ==
    ASSUME NEW b, NEW c, GetDigest(b) = GetDigest(c), b.packages # None
    PROVE  (c.packages # None \/ Selected(c) = {}) /\ Body(b) = Body(c)
  <1>1. \A x : GetDigest(x).ok = (x.packages # None \/ Selected(x) = {})
    BY DEF GetDigest
  <1>2. ASSUME NEW x, x.packages # None \/ Selected(x) = {} PROVE GetDigest(x).body = Body(x)
    BY <1>2 DEF GetDigest, Body
  <1>3. c.packages # None \/ Selected(c) = {}
    BY <1>1
  <1> QED
    BY <1>2, <1>3

\* A bundle with packages and with the hash of one the generator has signed offers the
\* same: the excludes are hashed, and those of the generator hide neither names nor
\* versions.
LEMMA DigestProtects ==
    ASSUME NEW b, NEW c, GetDigest(b) = GetDigest(c), b.packages # None, c.excludes = Excludes
    PROVE  c.packages # None /\ Protected(c) = Protected(b)
  <1>1. Selected(c) = Excludes /\ Excludes # {}
    BY NoneAssumption DEF Selected, Excludes
  <1>2. c.packages # None /\ Body(b) = Body(c)
    BY <1>1, DigestBodies
  <1>3. b.name = c.name /\ b.namespace = c.namespace /\ b.excludes = c.excludes
    BY <1>2, BodyParts
  <1>4. Selected(b) = Excludes
    BY <1>1, <1>3 DEF Selected
  <1>5. DOMAIN b.packages = DOMAIN c.packages
    BY <1>2, BodyPackages
  <1>6. \A i \in DOMAIN b.packages :
            Strip(b.packages[i], Excludes) = Strip(c.packages[i], Excludes)
    <2> TAKE i \in DOMAIN b.packages
    <2>1. Body(b).packages[i] = Strip(b.packages[i], Excludes)
      BY <1>4, BodyPackages
    <2>2. Body(c).packages[i] = Strip(c.packages[i], Excludes)
      BY <1>1, <1>2, <1>5, BodyPackages
    <2> QED
      BY <1>2, <2>1, <2>2
  <1>7. ASSUME NEW p PROVE Strip(p, Excludes)["name"] = p.name
                            /\ Strip(p, Excludes)["versions"] = p.versions
    BY DEF Strip, Excludes, PackageFields
  <1>8. \A i \in DOMAIN b.packages : /\ b.packages[i].name = c.packages[i].name
                                      /\ b.packages[i].versions = c.packages[i].versions
    BY <1>6, <1>7
  <1>9. [i \in DOMAIN b.packages |-> [name |-> b.packages[i].name,
                                       versions |-> b.packages[i].versions]]
       = [i \in DOMAIN c.packages |-> [name |-> c.packages[i].name,
                                       versions |-> c.packages[i].versions]]
    BY <1>5, <1>8
  <1> QED
    BY <1>2, <1>3, <1>9 DEF Protected

\* Neither the serialization nor the API server touches what is hashed, or the signature.
Alike(b, c) ==
    /\ DOMAIN b = BundleFields
    /\ b.name = c.name /\ b.namespace = c.namespace /\ b.excludes = c.excludes
    /\ b.packages = c.packages /\ b.sig = c.sig

\* So what is created, written or given a status is alike with what it was.
LEMMA WrittenAlike ==
    ASSUME NEW c, DOMAIN c = BundleFields
    PROVE  /\ Alike(Created(c), c) /\ Alike(serializeBundle(c), c)
           /\ Alike([c EXCEPT !.status = "set"], c)
  BY DEF Alike, BundleFields, Created, serializeBundle

\* The webhook treats such bundles alike.
LEMMA AlikeAdmitted ==
    ASSUME NEW b, NEW c, Alike(b, c) PROVE Admitted(b) <=> Admitted(c)
  <1>1. GetDigest(b) = GetDigest(c)
    BY SameDigest DEF Alike
  <1> QED
    BY <1>1 DEF Alike, Admitted, isPackageBundleValid, ValidateSignature, IsValidVersion

\* What the generator has signed is accepted, if it has packages.
LEMMA SignedAdmitted ==
    ASSUME NEW c, Signed(c), c.packages # None PROVE Admitted(c)
  BY KeysAssumption, NoneAssumption
  DEF Signed, Admitted, isPackageBundleValid, ValidateSignature, IsValidVersion, NoSignature

-----------------------------------------------------------------------------
(* The generator's process.                                                *)

\* Steps of the process that leave bundles and file alone.
LEMMA ProcessFrame ==
    ASSUME PInv, UNCHANGED <<signed, latest, obj, out>>, ProcessInv'
    PROVE  PInv'
  BY DEF PInv, ObjectInv, Published, Known

\* Before the signature nothing but the name matters, which the input file provides.
LEMMA BeforeSignature ==
    ASSUME PInv,
           \/ \E files \in Invocations : Start(files)
           \/ ReadInput \/ LookupExact \/ LookupLatest \/ LookupOther \/ PullChart \/ NoCharts
           \/ \E p \in Pushes : Push(p)
    PROVE  PInv'
  <1>1. UNCHANGED <<signed, latest, obj, out>>
    BY DEF Start, ReadInput, LookupExact, LookupLatest, LookupOther, PullChart, NoCharts, Push,
           NotGenerator
  <1>2. ASSUME NEW h, g # None, g' = h, DOMAIN h = DOMAIN g, h.files = g.files,
               h.file = g.file, h.name = g.name, g.pc \in {"lookup", "chart", "sign"},
               h.pc \in {"lookup", "chart", "sign"}
        PROVE  ProcessInv'
    BY <1>1, <1>2 DEF PInv, ProcessInv
  <1>3. ASSUME NEW files \in Invocations, Start(files) PROVE ProcessInv'
    <2>1. g' = [pc |-> "input", files |-> files, file |-> 1, index |-> 1, tag |-> 1, name |-> None,
                versions |-> <<>>, packages |-> None, bundle |-> None,
                annotations |-> [excludes |-> Excludes, sig |-> NoSignature],
                unpacked |-> {}, moved |-> {}, lost |-> FALSE]
      BY <1>3 DEF Start
    <2>2. 1 \in 1..Len(files)
      BY InputsAssumption
    <2> QED
      BY <2>1, <2>2 DEF ProcessInv, ProcessFields
  <1>4. ASSUME ReadInput PROVE ProcessInv'
    <2>1. Input.kube # None
      BY <1>4, InputsAssumption DEF ReadInput, Running, Input, PInv, ProcessInv
    <2>2. /\ DOMAIN g' = DOMAIN g /\ g'.files = g.files /\ g'.file = g.file
          /\ g'.name = [kube |-> Input.kube, epoch |-> <<runs, clock>>]
          /\ g'.pc \in {"lookup", "chart"}
      BY <1>4 DEF ReadInput, Running, PInv, ProcessInv, ProcessFields
    <2>3. g'.name.kube # None
      BY <2>1, <2>2
    <2> QED
      BY <1>4, <2>2, <2>3 DEF ReadInput, Running, PInv, ProcessInv
  <1>5. ASSUME NEW vs, NEW lost, Running("lookup"), Found(vs, lost) PROVE ProcessInv'
    <2>1. CASE g' = None
      BY <2>1 DEF ProcessInv
    <2>2. CASE g' # None
      <3>1. DOMAIN g = ProcessFields /\ g # None /\ g.pc = "lookup"
        BY <1>5 DEF Running, PInv, ProcessInv
      <3>2. /\ DOMAIN g' = DOMAIN g /\ g'.files = g.files /\ g'.file = g.file
            /\ g'.name = g.name /\ g'.pc \in {"lookup", "chart"}
        BY <1>5, <2>2, <3>1 DEF Found, ProcessFields
      <3> QED
        BY <1>2, <3>1, <3>2
    <2> QED
      BY <2>1, <2>2
  <1>6. ASSUME LookupExact PROVE ProcessInv'
    BY <1>5, <1>6 DEF LookupExact, LookingUp
  <1>7. ASSUME LookupLatest PROVE ProcessInv'
    <2>1. CASE g' = None
      BY <2>1 DEF ProcessInv
    <2>2. CASE g' # None
      BY <1>5, <1>7, <2>2 DEF LookupLatest, LookingUp
    <2> QED
      BY <2>1, <2>2
  <1>8. ASSUME LookupOther PROVE ProcessInv'
    BY <1>5, <1>8 DEF LookupOther, LookingUp
  <1>9. ASSUME PullChart PROVE ProcessInv'
    <2>1. CASE g' = None
      BY <2>1 DEF ProcessInv
    <2>2. CASE g' # None
      <3>1. DOMAIN g = ProcessFields /\ g # None /\ g.pc = "chart"
        BY <1>9 DEF PullChart, Running, PInv, ProcessInv
      <3>2. /\ DOMAIN g' = DOMAIN g /\ g'.files = g.files /\ g'.file = g.file
            /\ g'.name = g.name /\ g'.pc \in {"chart", "sign"}
        BY <1>9, <2>2, <3>1 DEF PullChart, ProcessFields
      <3> QED
        BY <1>2, <3>1, <3>2
    <2> QED
      BY <2>1, <2>2
  <1>10. ASSUME NoCharts PROVE ProcessInv'
    <2>1. DOMAIN g = ProcessFields /\ g # None /\ g.pc = "chart"
      BY <1>10 DEF NoCharts, Running, PInv, ProcessInv
    <2>2. g' = [g EXCEPT !.pc = "sign"]
      BY <1>10 DEF NoCharts
    <2> QED
      BY <1>2, <2>1, <2>2 DEF ProcessFields
  <1>11. ASSUME NEW p \in Pushes, Push(p) PROVE ProcessInv'
    BY <1>1, <1>11 DEF Push, PInv, ProcessInv, ProcessFields, Published
  <1> QED
    BY <1>1, <1>3, <1>4, <1>6, <1>7, <1>8, <1>9, <1>10, <1>11, ProcessFrame

\* What ends the process, and what is written without one.
LEMMA Endings ==
    ASSUME PInv,
           \/ ReadInputFails \/ LookupFails \/ PullChartFails \/ SignFails \/ WriteFails
           \/ GenerateSample
    PROVE  PInv'
  <1>1. g' = None /\ UNCHANGED <<signed, latest, obj>>
    BY DEF ReadInputFails, LookupFails, PullChartFails, SignFails, WriteFails, GenerateSample,
           Exit, NotGenerator
  <1> QED
    BY <1>1 DEF PInv, ProcessInv, ObjectInv, Published, Known

\* The hash is of the bundle before the signature is added; the signature is no part of
\* it, nor is the one of an earlier bundle that may still be there.
LEMMA SignStep == ASSUME PInv, Sign PROVE PInv'
  <1> DEFINE b == [AddMetadata EXCEPT !.excludes = Excludes]
             s == [key |-> KmsKey, digest |-> GetDigest(b)]
             result == [b EXCEPT !.sig = s]
  <1>1. /\ g # None /\ g.pc = "sign" /\ DOMAIN g = ProcessFields /\ g.name.kube # None
        /\ g.files \in Invocations /\ g.file \in 1..Len(g.files)
    BY DEF Sign, Running, PInv, ProcessInv
  <1>2. /\ g' = [g EXCEPT !.pc = "write", !.bundle = result,
                           !.annotations = [excludes |-> Excludes, sig |-> s]]
        /\ signed' = signed \cup {result} /\ UNCHANGED <<latest, obj, out>>
    BY DEF Sign, NotGenerator
  <1>3. /\ DOMAIN b = BundleFields /\ b.excludes = Excludes /\ b.name = g.name
    BY DEF AddMetadata, BundleFields
  <1> HIDE DEF b
  <1>4. /\ DOMAIN result = BundleFields /\ result.sig = s
        /\ result.name = b.name /\ result.namespace = b.namespace
        /\ result.excludes = b.excludes /\ result.packages = b.packages
    BY <1>3 DEF BundleFields
  <1>5. GetDigest(result) = GetDigest(b)
    BY <1>4, SameDigest
  <1> HIDE DEF result
  <1>6. Signed(result)
    BY <1>1, <1>3, <1>4, <1>5 DEF Signed
  <1>7. ProcessInv'
    BY <1>1, <1>2 DEF ProcessInv, ProcessFields
  <1>8. \A c \in signed' : Signed(c)
    BY <1>2, <1>6 DEF PInv
  <1>9. (latest # None => Published(latest))' /\ ObjectInv'
    BY <1>2 DEF PInv, Published, ObjectInv, Known
  <1> QED
    BY <1>7, <1>8, <1>9 DEF PInv

\* The file holds a signed bundle when a run is done, and so does the registry.
LEMMA WriteStep == ASSUME PInv, Write \/ PushBundle PROVE PInv'
  <1>1. ASSUME Write PROVE PInv'
    <2>1. /\ g # None /\ g.pc = "write" /\ DOMAIN g = ProcessFields /\ g.bundle \in signed
          /\ g.files \in Invocations /\ g.file \in 1..Len(g.files)
      BY <1>1 DEF Write, Running, PInv, ProcessInv
    <2>2. out' = serializeBundle(g.bundle) /\ UNCHANGED <<signed, latest, obj>>
      BY <1>1 DEF Write, NotGenerator
    <2>3. Published(out)'
      BY <2>1, <2>2 DEF Published
    <2>4. /\ DOMAIN g' = DOMAIN g /\ g'.files = g.files /\ g'.pc \in {"input", "done"}
          /\ g'.file = IF g.file < Len(g.files) THEN g.file + 1 ELSE g.file
      BY <1>1, <2>1 DEF Write, ProcessFields
    <2>5. g'.file \in 1..Len(g.files)
      <3>1. Len(g.files) \in Nat
        BY <2>1, InputsAssumption
      <3> QED
        BY <2>1, <2>4, <3>1
    <2>6. ProcessInv'
      BY <2>1, <2>3, <2>4, <2>5 DEF ProcessInv
    <2> QED
      BY <2>2, <2>6 DEF PInv, ObjectInv, Published, Known
  <1>2. ASSUME PushBundle PROVE PInv'
    <2>1. Published(out) /\ g' = None /\ UNCHANGED <<signed, obj>> /\ latest' \in {out, latest}
      BY <1>2 DEF PushBundle, Running, PInv, ProcessInv
    <2> QED
      BY <2>1 DEF PInv, ProcessInv, ObjectInv, Published, Known
  <1> QED
    BY <1>1, <1>2

-----------------------------------------------------------------------------
(* The cluster.                                                            *)

\* Users change one field at a time, and have no other trusted signatures than those of
\* the generator.
LEMMA ChangesKnown ==
    ASSUME NEW b, DOMAIN b = BundleFields, Known(b), NEW d \in Changes(b) \cup Copies(b)
    PROVE  DOMAIN d = BundleFields /\ Known(d)
  <1>1. ASSUME NEW f \in BundleFields \ {"sig"}, NEW v, d = [b EXCEPT ![f] = v]
        PROVE  DOMAIN d = BundleFields /\ Known(d)
    BY <1>1 DEF Known, BundleFields
  <1>2. ASSUME NEW v, d = [b EXCEPT !.sig = v],
               v.key = TrustedKey => \E c \in signed : c.sig = v
        PROVE  DOMAIN d = BundleFields /\ Known(d)
    BY <1>2 DEF Known, BundleFields
  <1>3. CASE d \in {[b EXCEPT !.other = "note"]} \cup {[b EXCEPT !.minVersion = "v9"]}
                    \cup {[b EXCEPT !.excludes = x] : x \in {None} \cup SUBSET Selectors}
                    \cup {[b EXCEPT !.packages = Tail(@)]}
    BY <1>1, <1>3 DEF BundleFields
  <1>4. CASE d \in {[b EXCEPT !.sig = s] : s \in {NoSignature} \cup {c.sig : c \in signed}}
                    \cup {[b EXCEPT !.sig = [key |-> OtherKey, digest |-> GetDigest(b)]]}
    <2>1. PICK s : /\ d = [b EXCEPT !.sig = s]
                   /\ \/ s = NoSignature \/ \E c \in signed : s = c.sig
                      \/ s = [key |-> OtherKey, digest |-> GetDigest(b)]
      BY <1>4
    <2>2. s.key = TrustedKey => \E c \in signed : c.sig = s
      BY <2>1, KeysAssumption, NoneAssumption DEF NoSignature
    <2> QED
      BY <1>2, <2>1, <2>2
  <1>5. CASE d \in UNION {{[b EXCEPT !.packages[i].registry = "mirror"],
                           [b EXCEPT !.packages[i].repository = "moved"],
                           [b EXCEPT !.packages[i].versions[1].digest = "other"],
                           [b EXCEPT !.packages[i].versions[1].chart = None]} :
                              i \in DOMAIN b.packages}
    <2>1. PICK i \in DOMAIN b.packages :
              d \in {[b EXCEPT !.packages[i].registry = "mirror"],
                     [b EXCEPT !.packages[i].repository = "moved"],
                     [b EXCEPT !.packages[i].versions[1].digest = "other"],
                     [b EXCEPT !.packages[i].versions[1].chart = None]}
      BY <1>5
    <2> QED
      BY <1>1, <2>1 DEF BundleFields
  <1>6. CASE d \in Copies(b)
    BY <1>1, <1>6 DEF Copies, BundleFields
  <1> QED
    BY <1>3, <1>4, <1>5, <1>6 DEF Changes

\* A bundle is stored when the webhook has accepted it.
LEMMA ClusterStep == ASSUME PInv, Cluster PROVE PInv'
  <1>1. UNCHANGED <<signed, latest, out, g>>
    BY DEF Cluster, ImportLatest, SaveStatus, UserDelete, UserCreate, UserUpdate
  <1>2. SUFFICES ObjectInv'
    BY <1>1 DEF PInv, ProcessInv, Published
  <1>3. ASSUME latest # None PROVE DOMAIN latest = BundleFields /\ Known(latest)
    <2>1. PICK c \in signed : latest = serializeBundle(c)
      BY <1>3 DEF PInv, Published
    <2>2. DOMAIN c = BundleFields
      BY DEF PInv, Signed
    <2> QED
      BY <2>1, <2>2, WrittenAlike DEF Alike, Known
  <1>4. ASSUME NEW b, NEW d, obj' = d, Alike(d, b), Admitted(d), Known(b)
        PROVE  ObjectInv'
    <2>1. Known(d)'
      BY <1>1, <1>4 DEF Alike, Known
    <2>2. Admitted(d)' <=> Admitted(d)
      OBVIOUS
    <2> QED
      BY <1>4, <2>1, <2>2 DEF ObjectInv, Alike
  <1>5. CASE ImportLatest
    BY <1>3, <1>4, <1>5, WrittenAlike DEF ImportLatest
  <1>6. ASSUME NEW b \in Changes(latest) \cup Copies(latest), latest # None, UserCreate(b)
        PROVE  ObjectInv'
    BY <1>3, <1>4, <1>6, ChangesKnown, WrittenAlike DEF UserCreate
  <1>7. ASSUME NEW b \in Changes(obj), obj # None, UserUpdate(b) PROVE ObjectInv'
    <2>1. DOMAIN b = BundleFields /\ Known(b)
      BY <1>7, ChangesKnown DEF PInv, ObjectInv
    <2> QED
      BY <1>4, <1>7, <2>1 DEF UserUpdate, Alike
  <1>8. CASE UserDelete
    BY <1>8 DEF UserDelete, ObjectInv
  <1>9. CASE SaveStatus
    <2>1. DOMAIN obj = BundleFields /\ Known(obj) /\ Admitted(obj)
      BY <1>9 DEF SaveStatus, PInv, ObjectInv
    <2> QED
      BY <1>4, <1>9, <2>1, WrittenAlike, AlikeAdmitted DEF SaveStatus
  <1> QED
    BY <1>5, <1>6, <1>7, <1>8, <1>9 DEF Cluster

-----------------------------------------------------------------------------
(* The theorems.                                                           *)

\* The invariant they rest on.
LEMMA PublicationInvariant == Spec => []PInv
  <1>1. Init => PInv
    BY DEF Init, PInv, ProcessInv, ObjectInv
  <1>2. PInv /\ [Next]_vars => PInv'
    <2> SUFFICES ASSUME PInv, [Next]_vars PROVE PInv'
      OBVIOUS
    <2>1. CASE Next
      BY <2>1, BeforeSignature, Endings, SignStep, WriteStep, ClusterStep DEF Next, Generator
    <2>2. CASE UNCHANGED vars
      BY <2>2 DEF vars, PInv, ProcessInv, ObjectInv, Published, Known
    <2> QED
      BY <2>1, <2>2
  <1> QED
    BY <1>1, <1>2, PTL DEF Spec

\* Clusters accept what the generator has published (serializeBundle, Created), whatever
\* the process has signed before.
THEOREM PublishedAccepted == Spec => []PublishedIsAccepted
  <1>1. PInv => PublishedIsAccepted
    <2> SUFFICES ASSUME PInv, latest # None, latest.packages # None
                 PROVE  Admitted(Created(latest))
      BY DEF PublishedIsAccepted
    <2>1. PICK c \in signed : latest = serializeBundle(c)
      BY DEF PInv, Published
    <2>2. Signed(c) /\ DOMAIN c = BundleFields
      BY DEF PInv, Signed
    <2>3. Alike(latest, c) /\ Alike(Created(latest), latest)
      <3>1. Alike(latest, c)
        BY <2>1, <2>2, WrittenAlike
      <3> QED
        BY <3>1, WrittenAlike DEF Alike
    <2>4. Admitted(c)
      BY <2>2, <2>3, SignedAdmitted DEF Alike
    <2> QED
      BY <2>3, <2>4, AlikeAdmitted
  <1> QED
    BY <1>1, PublicationInvariant, PTL

\* A stored bundle stays acceptable, also with the status the controller saves.
THEOREM StoredStaysValid == Spec => []StoredVerifies
  <1>1. PInv => StoredVerifies
    BY DEF PInv, ObjectInv, StoredVerifies
  <1> QED
    BY <1>1, PublicationInvariant, PTL

\* A stored bundle has the name, the packages, the digests and the images of one that the
\* generator has signed (isPackageBundleValid), for any changes by users.
THEOREM OnlySignedAccepted == Spec => []AcceptedIsSigned
  <1>1. PInv => AcceptedIsSigned
    <2> SUFFICES ASSUME PInv, obj # None
                 PROVE  \E c \in signed : c.packages # None /\ Protected(c) = Protected(obj)
      BY DEF AcceptedIsSigned
    <2>1. /\ obj.packages # None /\ obj.sig.key = TrustedKey /\ obj.sig.digest = GetDigest(obj)
          /\ Known(obj)
      BY DEF PInv, ObjectInv, Admitted, isPackageBundleValid, ValidateSignature
    <2>2. PICK c \in signed : c.sig = obj.sig
      BY <2>1 DEF Known
    <2>3. c.excludes = Excludes /\ c.sig.digest = GetDigest(c)
      <3>1. Signed(c)
        BY <2>2 DEF PInv
      <3>2. c.excludes = Excludes /\ c.sig = [key |-> KmsKey, digest |-> GetDigest(c)]
        BY <3>1 DEF Signed
      <3> QED
        BY <3>2
    <2> QED
      BY <2>1, <2>2, <2>3, DigestProtects
  <1> QED
    BY <1>1, PublicationInvariant, PTL

-----------------------------------------------------------------------------
(* The loops of the generator.  They are recursive functions; what their   *)
(* result is for every list follows from the least turn at which it would  *)
(* not be so.                                                              *)

\* A set of numbers that is not empty has a least one.
LEMMA Least ==
    ASSUME NEW T \in SUBSET Nat, T # {}
    PROVE  \E m \in T : \A k \in T : ~(k < m)
  <1>1. PICK m \in T : \A k \in T : <<k, m>> \notin OpToRel(<, Nat)
    BY WFMin, NatLessThanWellFounded, Zenon
  <1>2. \A k \in T : k < m => <<k, m>> \in OpToRel(<, Nat)
    BY DEF OpToRel
  <1> QED
    BY <1>1, <1>2

\* What holds of 0, and of m + 1 whenever of m, fails nowhere up to n: the set T of the
\* failures is empty.
LEMMA NoneFails ==
    ASSUME NEW n \in Nat, NEW T \in SUBSET (0..n), 0 \notin T,
           \A m \in 0..n : m + 1 \in T => m \in T
    PROVE  T = {}
  <1> SUFFICES ASSUME T # {} PROVE FALSE
    OBVIOUS
  <1>1. PICK m \in T : \A k \in T : ~(k < m)
    BY Least
  <1>2. m - 1 \in 0..n /\ m - 1 + 1 = m
    OBVIOUS
  <1> QED
    BY <1>1, <1>2

\* f holds the results of the first turns of a loop over 1..n: turn m makes
\* step[m][x] of the result x of the turns before.
IsRun(f, n, V, first, step) ==
    /\ f \in [0..n -> V] /\ f[0] = first
    /\ \A m \in 1..n : f[m] = step[m][f[m - 1]]

\* Every such loop has its results.
LEMMA LoopRuns ==
    ASSUME NEW n \in Nat, NEW V, NEW first \in V, NEW step \in [1..n -> [V -> V]]
    PROVE  \E f : IsRun(f, n, V, first, step)
  <1> DEFINE Runs(k) == \E f : IsRun(f, k, V, first, step)
             T == {k \in 0..n : ~Runs(k)}
  <1>1. Runs(0)
    <2> DEFINE f == [k \in 0..0 |-> first]
    <2>1. IsRun(f, 0, V, first, step)
      BY DEF IsRun
    <2> QED
      BY <2>1
  <1>2. ASSUME NEW k \in 0..n, k + 1 \in 0..n, Runs(k) PROVE Runs(k + 1)
    <2>1. PICK f : IsRun(f, k, V, first, step)
      BY <1>2
    <2> DEFINE h == [m \in 0..(k + 1) |-> IF m = k + 1 THEN step[m][f[k]] ELSE f[m]]
    <2>2. step[k + 1][f[k]] \in V
      BY <1>2, <2>1 DEF IsRun
    <2>3. h \in [0..(k + 1) -> V]
      BY <2>1, <2>2 DEF IsRun
    <2>4. h[0] = first /\ \A m \in 1..(k + 1) : h[m] = step[m][h[m - 1]]
      BY <2>1 DEF IsRun
    <2>5. IsRun(h, k + 1, V, first, step)
      BY <2>3, <2>4 DEF IsRun
    <2> QED
      BY <2>5
  <1> HIDE DEF Runs
  <1>3. T = {}
    BY <1>1, <1>2, NoneFails
  <1> QED
    BY <1>3 DEF Runs

\* A turn of the loop of Only.
OnlyTurn(f, s, S, n) == f[n] = IF s[n] \in S THEN Append(f[n - 1], s[n]) ELSE f[n - 1]

\* The results of the turns exist, and Only is the last of them.
LEMMA OnlyDefined ==
    ASSUME NEW V, NEW s \in Seq(V), NEW S
    PROVE  \E f : /\ f[0] = <<>> /\ Only(s, S) = f[Len(s)]
                  /\ \A n \in 1..Len(s) : OnlyTurn(f, s, S, n)
  <1> DEFINE step == [n \in 1..Len(s) |->
                         [l \in Seq(V) |-> IF s[n] \in S THEN Append(l, s[n]) ELSE l]]
             Loop(f) == [n \in 0..Len(s) |->
                            IF n = 0 THEN <<>>
                            ELSE IF s[n] \in S THEN Append(f[n - 1], s[n]) ELSE f[n - 1]]
             F == CHOOSE f : f = Loop(f)
  <1>1. Len(s) \in Nat /\ <<>> \in Seq(V)
    OBVIOUS
  <1>2. step \in [1..Len(s) -> [Seq(V) -> Seq(V)]]
    OBVIOUS
  <1> HIDE DEF step
  <1>3. PICK f : IsRun(f, Len(s), Seq(V), <<>>, step)
    BY <1>1, <1>2, LoopRuns
  <1>4. ASSUME NEW n \in 0..Len(s) PROVE f[n] = Loop(f)[n]
    <2>1. CASE n = 0
      BY <1>3, <2>1, Zenon DEF IsRun
    <2>2. CASE n # 0
      <3>1. n \in 1..Len(s) /\ n - 1 \in 0..Len(s)
        BY <2>2, <1>1
      <3>2. f[n] = step[n][f[n - 1]] /\ f[n - 1] \in Seq(V)
        BY <1>3, <3>1, Zenon DEF IsRun
      <3> QED
        BY <2>2, <3>1, <3>2 DEF step
    <2> QED
      BY <2>1, <2>2
  <1>5. f = Loop(f)
    <2> HIDE DEF Loop
    <2>1. DOMAIN Loop(f) = 0..Len(s) /\ Loop(f) = [n \in 0..Len(s) |-> Loop(f)[n]]
      BY DEF Loop
    <2>2. f \in [0..Len(s) -> Seq(V)]
      BY <1>3 DEF IsRun
    <2> QED
      BY <1>4, <2>1, <2>2
  <1>6. F = Loop(F)
    <2> HIDE DEF Loop
    <2> QED
      BY <1>5, Zenon
  <1>7. Only(s, S) = F[Len(s)]
    BY Zenon DEF Only
  <1> HIDE DEF F
  <1>8. F[0] = <<>>
    BY <1>1, <1>6
  <1>9. ASSUME NEW n \in 1..Len(s) PROVE OnlyTurn(F, s, S, n)
    <2>1. n \in 0..Len(s) /\ n # 0
      BY <1>1
    <2>2. Loop(F)[n] = IF s[n] \in S THEN Append(F[n - 1], s[n]) ELSE F[n - 1]
      BY <2>1
    <2> HIDE DEF Loop
    <2>3. F[n] = Loop(F)[n]
      BY <1>6, Zenon
    <2> QED
      BY <2>2, <2>3, Zenon DEF OnlyTurn
  <1> QED
    BY <1>7, <1>8, <1>9, Zenon

\* What Append adds to the elements of a list.
LEMMA RangeAppend ==
    ASSUME NEW V, NEW l \in Seq(V), NEW x \in V
    PROVE  Append(l, x) \in Seq(V) /\ Range(Append(l, x)) = Range(l) \cup {x}
  <1>1. /\ Append(l, x) \in Seq(V) /\ DOMAIN Append(l, x) = 1..(Len(l) + 1) /\ DOMAIN l = 1..Len(l)
        /\ Len(l) \in Nat /\ Append(l, x)[Len(l) + 1] = x
        /\ \A i \in 1..Len(l) : Append(l, x)[i] = l[i]
    OBVIOUS
  <1>2. ASSUME NEW y \in Range(Append(l, x)) PROVE y \in Range(l) \cup {x}
    BY <1>1 DEF Range
  <1>3. ASSUME NEW y \in Range(l) \cup {x} PROVE y \in Range(Append(l, x))
    <2>1. CASE y = x
      BY <1>1, <2>1 DEF Range
    <2>2. CASE y \in Range(l)
      <3>1. PICK i \in 1..Len(l) : y = l[i]
        BY <1>1, <2>2 DEF Range
      <3>2. i \in DOMAIN Append(l, x) /\ y = Append(l, x)[i]
        BY <1>1, <3>1
      <3> QED
        BY <3>2 DEF Range
    <2> QED
      BY <2>1, <2>2, <1>3
  <1> QED
    BY <1>1, <1>2, <1>3

\* Only keeps the elements that are in S, and no others.
LEMMA OnlyKeeps ==
    ASSUME NEW V, NEW s \in Seq(V), NEW S
    PROVE  Only(s, S) \in Seq(V) /\ Range(Only(s, S)) = Range(s) \cap S
  <1>1. PICK f : /\ f[0] = <<>> /\ Only(s, S) = f[Len(s)]
                 /\ \A n \in 1..Len(s) : OnlyTurn(f, s, S, n)
    BY OnlyDefined, Zenon
  <1>2. Len(s) \in Nat /\ \A n \in 1..Len(s) : s[n] \in V
    OBVIOUS
  <1> DEFINE Upto(n) == {s[i] : i \in 1..n}
             Good(n) == f[n] \in Seq(V) /\ Range(f[n]) = Upto(n) \cap S
             T == {n \in 0..Len(s) : ~Good(n)}
  <1>3. Good(0)
    BY <1>1 DEF Range
  <1>4. ASSUME NEW n \in 0..Len(s), n + 1 \in 0..Len(s), Good(n) PROVE Good(n + 1)
    <2>1. n + 1 \in 1..Len(s) /\ (n + 1) - 1 = n
      BY <1>2, <1>4
    <2>2. f[n + 1] = IF s[n + 1] \in S THEN Append(f[n], s[n + 1]) ELSE f[n]
      BY <1>1, <2>1 DEF OnlyTurn
    <2>3. Upto(n + 1) = Upto(n) \cup {s[n + 1]}
      BY <1>2
    <2>4. s[n + 1] \in V
      BY <1>2, <2>1
    <2> HIDE DEF Upto
    <2>5. CASE s[n + 1] \in S
      <3>1. f[n + 1] \in Seq(V) /\ Range(f[n + 1]) = Range(f[n]) \cup {s[n + 1]}
        BY <1>4, <2>2, <2>4, <2>5, RangeAppend
      <3> QED
        BY <1>4, <2>3, <2>5, <3>1
    <2>6. CASE s[n + 1] \notin S
      BY <1>4, <2>2, <2>3, <2>6
    <2> QED
      BY <2>5, <2>6
  <1>5. Range(s) = Upto(Len(s))
    BY DEF Range
  <1> HIDE DEF Good
  <1>6. T = {}
    BY <1>2, <1>3, <1>4, NoneFails
  <1>7. Good(Len(s))
    BY <1>2, <1>6
  <1> QED
    BY <1>1, <1>5, <1>7 DEF Good

\* A turn of the loop of getLatestImageSha.
LatestTurn(f, list, n) ==
    f[n] = IF IsChart(list[n]) /\ f[n - 1].at < list[n].at THEN list[n] ELSE f[n - 1]

\* The results of the turns exist, and getLatestImageSha is the last of them.
LEMMA LatestDefined ==
    ASSUME NEW list \in Seq(Images)
    PROVE  \E f : /\ f[0] = NoImage /\ getLatestImageSha(list) = f[Len(list)]
                  /\ \A n \in 1..Len(list) : LatestTurn(f, list, n)
  <1> DEFINE V == Images \cup {NoImage}
             step == [n \in 1..Len(list) |->
                         [d \in V |-> IF IsChart(list[n]) /\ d.at < list[n].at THEN list[n] ELSE d]]
             Loop(f) == [n \in 0..Len(list) |->
                            IF n = 0 THEN NoImage
                            ELSE IF IsChart(list[n]) /\ f[n - 1].at < list[n].at THEN list[n]
                            ELSE f[n - 1]]
             F == CHOOSE f : f = Loop(f)
  <1>1. Len(list) \in Nat /\ NoImage \in V
    OBVIOUS
  <1>2. step \in [1..Len(list) -> [V -> V]]
    OBVIOUS
  <1> HIDE DEF step, V
  <1>3. PICK f : IsRun(f, Len(list), V, NoImage, step)
    BY <1>1, <1>2, LoopRuns
  <1>4. ASSUME NEW n \in 0..Len(list) PROVE f[n] = Loop(f)[n]
    <2>1. CASE n = 0
      BY <1>3, <2>1, Zenon DEF IsRun
    <2>2. CASE n # 0
      <3>1. n \in 1..Len(list) /\ n - 1 \in 0..Len(list)
        BY <2>2, <1>1
      <3>2. f[n] = step[n][f[n - 1]] /\ f[n - 1] \in V
        BY <1>3, <3>1, Zenon DEF IsRun
      <3> QED
        BY <2>2, <3>1, <3>2 DEF step
    <2> QED
      BY <2>1, <2>2
  <1>5. f = Loop(f)
    <2> HIDE DEF Loop
    <2>1. DOMAIN Loop(f) = 0..Len(list) /\ Loop(f) = [n \in 0..Len(list) |-> Loop(f)[n]]
      BY DEF Loop
    <2>2. f \in [0..Len(list) -> V]
      BY <1>3 DEF IsRun
    <2> QED
      BY <1>4, <2>1, <2>2
  <1>6. F = Loop(F)
    <2> HIDE DEF Loop
    <2> QED
      BY <1>5, Zenon
  <1>7. getLatestImageSha(list) = F[Len(list)]
    BY Zenon DEF getLatestImageSha
  <1> HIDE DEF F
  <1>8. F[0] = NoImage
    BY <1>1, <1>6
  <1>9. ASSUME NEW n \in 1..Len(list) PROVE LatestTurn(F, list, n)
    <2>1. n \in 0..Len(list) /\ n # 0
      BY <1>1
    <2>2. Loop(F)[n] = IF IsChart(list[n]) /\ F[n - 1].at < list[n].at THEN list[n] ELSE F[n - 1]
      BY <2>1
    <2> HIDE DEF Loop
    <2>3. F[n] = Loop(F)[n]
      BY <1>6, Zenon
    <2> QED
      BY <2>2, <2>3, Zenon DEF LatestTurn
  <1> QED
    BY <1>7, <1>8, <1>9, Zenon

\* x is the answer for the first n images of the list.
LatestOf(x, list, n) ==
    \/ x = NoImage /\ \A i \in 1..n : ~IsChart(list[i])
    \/ /\ \E i \in 1..n : x = list[i]
       /\ IsChart(x) /\ \A i \in 1..n : IsChart(list[i]) => list[i].at <= x.at

\* getLatestImageSha finds, in a list in any order, a chart that no chart of the list is
\* newer than, and nothing only if no image is a chart.
THEOREM LatestIsNewest ==
    ASSUME NEW list \in Seq(Images)
    PROVE  LET d == getLatestImageSha(list)
               charts == {e \in Range(list) : IsChart(e)}
           IN  IF charts = {} THEN d = NoImage
               ELSE d \in charts /\ \A e \in charts : e.at <= d.at
  <1>1. PICK f : /\ f[0] = NoImage /\ getLatestImageSha(list) = f[Len(list)]
                 /\ \A n \in 1..Len(list) : LatestTurn(f, list, n)
    BY LatestDefined, Zenon
  <1>2. Len(list) \in Nat /\ \A n \in 1..Len(list) : list[n] \in Images
    OBVIOUS
  <1>3. \A e \in Images : e.at \in Nat \ {0}
    BY DEF Images
  <1> DEFINE T == {n \in 0..Len(list) : ~LatestOf(f[n], list, n)}
  <1>4. LatestOf(f[0], list, 0)
    BY <1>1 DEF LatestOf
  <1>5. ASSUME NEW n \in 0..Len(list), n + 1 \in 0..Len(list), LatestOf(f[n], list, n)
        PROVE  LatestOf(f[n + 1], list, n + 1)
    <2>1. n + 1 \in 1..Len(list) /\ (n + 1) - 1 = n /\ list[n + 1].at \in Nat \ {0}
      BY <1>2, <1>3, <1>5
    <2>2. f[n + 1] = IF IsChart(list[n + 1]) /\ f[n].at < list[n + 1].at THEN list[n + 1] ELSE f[n]
      BY <1>1, <2>1 DEF LatestTurn
    <2>3. \A i \in 1..(n + 1) : i = n + 1 \/ i \in 1..n
      OBVIOUS
    <2>4. \A i \in 1..n : i \in 1..Len(list) /\ i \in 1..(n + 1) /\ list[i].at \in Nat
      BY <1>2, <1>3
    <2>5. CASE f[n] = NoImage /\ \A i \in 1..n : ~IsChart(list[i])
      <3>1. f[n].at = 0
        BY <2>5 DEF NoImage
      <3>2. CASE IsChart(list[n + 1])
        BY <2>1, <2>2, <2>3, <2>5, <3>1, <3>2 DEF LatestOf
      <3>3. CASE ~IsChart(list[n + 1])
        BY <2>1, <2>2, <2>3, <2>5, <3>3 DEF LatestOf
      <3> QED
        BY <3>2, <3>3
    <2>6. CASE /\ \E i \in 1..n : f[n] = list[i]
               /\ IsChart(f[n]) /\ \A i \in 1..n : IsChart(list[i]) => list[i].at <= f[n].at
      <3>1. f[n].at \in Nat
        BY <2>4, <2>6
      <3>2. CASE IsChart(list[n + 1]) /\ f[n].at < list[n + 1].at
        <4>1. f[n + 1] = list[n + 1] /\ IsChart(f[n + 1])
          BY <2>2, <3>2
        <4>2. \A i \in 1..(n + 1) : IsChart(list[i]) => list[i].at <= f[n + 1].at
          BY <2>1, <2>3, <2>4, <2>6, <3>1, <3>2, <4>1
        <4> QED
          BY <2>1, <4>1, <4>2 DEF LatestOf
      <3>3. CASE ~(IsChart(list[n + 1]) /\ f[n].at < list[n + 1].at)
        <4>1. f[n + 1] = f[n]
          BY <2>2, <3>3
        <4>2. \A i \in 1..(n + 1) : IsChart(list[i]) => list[i].at <= f[n + 1].at
          BY <2>1, <2>3, <2>4, <2>6, <3>1, <3>3, <4>1
        <4> QED
          BY <2>4, <2>6, <4>1, <4>2 DEF LatestOf
      <3> QED
        BY <3>2, <3>3
    <2> QED
      BY <1>5, <2>5, <2>6 DEF LatestOf
  <1>6. T = {}
    BY <1>2, <1>4, <1>5, NoneFails
  <1>7. LatestOf(getLatestImageSha(list), list, Len(list))
    BY <1>1, <1>2, <1>6
  <1>8. Range(list) = {list[i] : i \in 1..Len(list)}
    BY DEF Range
  <1> QED
    BY <1>7, <1>8 DEF LatestOf

\* The version v is in the list l by name.
HasName(l, v) == \E i \in DOMAIN l : l[i].name = v.name

\* A turn of the loop of removeDuplicates.
UniqueTurn(f, vs, n) ==
    f[n] = IF HasName(f[n - 1], vs[n]) THEN f[n - 1] ELSE Append(f[n - 1], vs[n])

\* The results of the turns exist, and removeDuplicates is the last of them.
LEMMA UniqueDefined ==
    ASSUME NEW V, NEW vs \in Seq(V)
    PROVE  \E f : /\ f[0] = <<>> /\ removeDuplicates(vs) = f[Len(vs)]
                  /\ \A n \in 1..Len(vs) : UniqueTurn(f, vs, n)
  <1> DEFINE step == [n \in 1..Len(vs) |->
                         [l \in Seq(V) |-> IF HasName(l, vs[n]) THEN l ELSE Append(l, vs[n])]]
             Loop(f) == [n \in 0..Len(vs) |->
                            IF n = 0 THEN <<>>
                            ELSE IF \E i \in DOMAIN f[n - 1] : f[n - 1][i].name = vs[n].name
                            THEN f[n - 1] ELSE Append(f[n - 1], vs[n])]
             F == CHOOSE f : f = Loop(f)
  <1>1. Len(vs) \in Nat /\ <<>> \in Seq(V)
    OBVIOUS
  <1>2. step \in [1..Len(vs) -> [Seq(V) -> Seq(V)]]
    OBVIOUS
  <1> HIDE DEF step
  <1>3. PICK f : IsRun(f, Len(vs), Seq(V), <<>>, step)
    BY <1>1, <1>2, LoopRuns
  <1>4. ASSUME NEW n \in 0..Len(vs) PROVE f[n] = Loop(f)[n]
    <2>1. CASE n = 0
      BY <1>3, <2>1, Zenon DEF IsRun
    <2>2. CASE n # 0
      <3>1. n \in 1..Len(vs) /\ n - 1 \in 0..Len(vs)
        BY <2>2, <1>1
      <3>2. f[n] = step[n][f[n - 1]] /\ f[n - 1] \in Seq(V)
        BY <1>3, <3>1, Zenon DEF IsRun
      <3>3. step[n][f[n - 1]] = IF HasName(f[n - 1], vs[n]) THEN f[n - 1]
                                ELSE Append(f[n - 1], vs[n])
        BY <3>1, <3>2 DEF step
      <3>4. Loop(f)[n] = IF HasName(f[n - 1], vs[n]) THEN f[n - 1] ELSE Append(f[n - 1], vs[n])
        BY <2>2, Zenon DEF HasName
      <3> QED
        BY <3>2, <3>3, <3>4, Zenon
    <2> QED
      BY <2>1, <2>2
  <1>5. f = Loop(f)
    <2> HIDE DEF Loop
    <2>1. DOMAIN Loop(f) = 0..Len(vs) /\ Loop(f) = [n \in 0..Len(vs) |-> Loop(f)[n]]
      BY Zenon DEF Loop
    <2>2. f \in [0..Len(vs) -> Seq(V)]
      BY <1>3 DEF IsRun
    <2> QED
      BY <1>4, <2>1, <2>2
  <1>6. F = Loop(F)
    <2> HIDE DEF Loop
    <2> QED
      BY <1>5, Zenon
  <1>7. removeDuplicates(vs) = F[Len(vs)]
    BY Zenon DEF removeDuplicates
  <1> HIDE DEF F
  <1>8. F[0] = <<>>
    <2>1. 0 \in 0..Len(vs)
      BY <1>1
    <2>2. Loop(F)[0] = <<>>
      BY <2>1, Zenon
    <2> HIDE DEF Loop
    <2> QED
      BY <1>6, <2>2, Zenon
  <1>9. ASSUME NEW n \in 1..Len(vs) PROVE UniqueTurn(F, vs, n)
    <2>1. n \in 0..Len(vs) /\ n # 0
      BY <1>1
    <2>2. Loop(F)[n] = IF HasName(F[n - 1], vs[n]) THEN F[n - 1] ELSE Append(F[n - 1], vs[n])
      BY <2>1, Zenon DEF HasName
    <2> HIDE DEF Loop
    <2>3. F[n] = Loop(F)[n]
      BY <1>6, Zenon
    <2> QED
      BY <2>2, <2>3, Zenon DEF UniqueTurn
  <1> QED
    BY <1>7, <1>8, <1>9, Zenon

\* l has one version of each name among the first n of vs.
UniqueOf(V, l, vs, n) ==
    /\ l \in Seq(V)
    /\ \A v \in Range(l) : \E i \in 1..n : v = vs[i] /\ \A j \in 1..(i - 1) : vs[j].name # v.name
    /\ \A i \in 1..n : HasName(l, vs[i])
    /\ \A i, j \in DOMAIN l : l[i].name = l[j].name => i = j

\* removeDuplicates leaves one version of each name, the first: it neither loses a name nor
\* keeps a version that comes after another of its name.
THEOREM OneOfEachName ==
    ASSUME NEW V, NEW vs \in Seq(V)
    PROVE  LET l == removeDuplicates(vs) IN
           /\ l \in Seq(V) /\ Range(l) \subseteq Range(vs)
           /\ \A v \in Range(l) : \E i \in DOMAIN vs :
                 v = vs[i] /\ \A j \in 1..(i - 1) : vs[j].name # v.name
           /\ \A v \in Range(vs) : \E w \in Range(l) : w.name = v.name
           /\ \A i, j \in DOMAIN l : l[i].name = l[j].name => i = j
  <1>1. PICK f : /\ f[0] = <<>> /\ removeDuplicates(vs) = f[Len(vs)]
                 /\ \A n \in 1..Len(vs) : UniqueTurn(f, vs, n)
    BY UniqueDefined, Zenon
  <1>2. Len(vs) \in Nat /\ \A n \in 1..Len(vs) : vs[n] \in V
    OBVIOUS
  <1> DEFINE T == {n \in 0..Len(vs) : ~UniqueOf(V, f[n], vs, n)}
  <1>3. UniqueOf(V, f[0], vs, 0)
    BY <1>1 DEF UniqueOf, Range
  <1>4. ASSUME NEW n \in 0..Len(vs), n + 1 \in 0..Len(vs), UniqueOf(V, f[n], vs, n)
        PROVE  UniqueOf(V, f[n + 1], vs, n + 1)
    <2>1. n + 1 \in 1..Len(vs) /\ (n + 1) - 1 = n /\ vs[n + 1] \in V
      BY <1>2, <1>4
    <2>2. f[n + 1] = IF HasName(f[n], vs[n + 1]) THEN f[n] ELSE Append(f[n], vs[n + 1])
      BY <1>1, <2>1 DEF UniqueTurn
    <2>3. \A i \in 1..(n + 1) : i = n + 1 \/ i \in 1..n
      OBVIOUS
    <2>4. \A i \in 1..n : i \in 1..(n + 1)
      OBVIOUS
    <2>5. CASE HasName(f[n], vs[n + 1])
      BY <1>4, <2>2, <2>3, <2>4, <2>5 DEF UniqueOf
    <2>6. CASE ~HasName(f[n], vs[n + 1])
      <3> DEFINE l == f[n]
                 m == f[n + 1]
                 v == vs[n + 1]
      <3>1. l \in Seq(V) /\ m = Append(l, v)
        BY <1>4, <2>2, <2>6 DEF UniqueOf
      <3>2. m \in Seq(V) /\ Range(m) = Range(l) \cup {v}
        BY <2>1, <3>1, RangeAppend
      <3>3. /\ DOMAIN m = 1..(Len(l) + 1) /\ DOMAIN l = 1..Len(l) /\ Len(l) \in Nat
            /\ m[Len(l) + 1] = v /\ \A i \in 1..Len(l) : m[i] = l[i]
        BY <2>1, <3>1
      <3>4. \A w \in Range(m) :
                \E i \in 1..(n + 1) : w = vs[i] /\ \A j \in 1..(i - 1) : vs[j].name # w.name
        <4>1. \A j \in 1..n : vs[j].name # v.name
          BY <1>4, <2>6 DEF UniqueOf, HasName
        <4>2. \A w \in Range(l) :
                  \E i \in 1..n : w = vs[i] /\ \A j \in 1..(i - 1) : vs[j].name # w.name
          BY <1>4 DEF UniqueOf
        <4>3. n + 1 \in 1..(n + 1) /\ (n + 1) - 1 = n
          OBVIOUS
        <4> HIDE DEF l, m
        <4>4. \E i \in 1..(n + 1) : v = vs[i] /\ \A j \in 1..(i - 1) : vs[j].name # v.name
          BY <4>1, <4>3
        <4> QED
          BY <2>4, <3>2, <4>2, <4>4
      <3>5. \A i \in 1..(n + 1) : HasName(m, vs[i])
        <4>1. \A i \in 1..n : HasName(l, vs[i])
          BY <1>4 DEF UniqueOf
        <4> HIDE DEF l, m
        <4>2. HasName(m, v)
          BY <3>3 DEF HasName
        <4>3. ASSUME NEW i \in 1..n PROVE HasName(m, vs[i])
          <5>1. PICK k \in 1..Len(l) : l[k].name = vs[i].name
            BY <3>3, <4>1 DEF HasName
          <5>2. k \in DOMAIN m /\ m[k].name = vs[i].name
            BY <3>3, <5>1
          <5> QED
            BY <5>2 DEF HasName
        <4> QED
          BY <2>3, <4>2, <4>3 DEF v
      <3>6. \A i, j \in DOMAIN m : m[i].name = m[j].name => i = j
        <4>1. \A i, j \in DOMAIN l : l[i].name = l[j].name => i = j
          BY <1>4 DEF UniqueOf
        <4>2. \A i \in DOMAIN l : l[i].name # v.name
          BY <2>6 DEF HasName
        <4> HIDE DEF l, m, v
        <4>3. \A i \in DOMAIN m : i = Len(l) + 1 \/ i \in DOMAIN l
          BY <3>3
        <4> QED
          BY <3>3, <4>1, <4>2, <4>3
      <3> HIDE DEF l, m, v
      <3> QED
        BY <3>2, <3>4, <3>5, <3>6 DEF UniqueOf, m
    <2> QED
      BY <2>5, <2>6
  <1>5. T = {}
    BY <1>2, <1>3, <1>4, NoneFails
  <1>6. UniqueOf(V, removeDuplicates(vs), vs, Len(vs))
    BY <1>1, <1>2, <1>5
  <1>7. Range(vs) = {vs[i] : i \in 1..Len(vs)}
    BY DEF Range
  <1>8. \A v \in Range(vs) : \E w \in Range(removeDuplicates(vs)) : w.name = v.name
    <2>1. ASSUME NEW l, NEW v, HasName(l, v) PROVE \E w \in Range(l) : w.name = v.name
      BY <2>1 DEF HasName, Range
    <2> QED
      BY <1>6, <1>7, <2>1 DEF UniqueOf
  <1>9. \A v \in Range(removeDuplicates(vs)) : \E i \in 1..Len(vs) :
            v = vs[i] /\ \A j \in 1..(i - 1) : vs[j].name # v.name
    BY <1>6 DEF UniqueOf
  <1>10. Range(removeDuplicates(vs)) \subseteq Range(vs)
    BY <1>7, <1>9
  <1>11. DOMAIN vs = 1..Len(vs)
    OBVIOUS
  <1> QED
    BY <1>6, <1>8, <1>9, <1>10, <1>11 DEF UniqueOf

\* The first pages of an answer of DescribeImages hold images of the repository only.
LEMMA PagesCover ==
    ASSUME NEW list \in Seq(Images), NEW n \in 1..Pages(list)
    PROVE  Describe(list, n) \in Seq(Images) /\ Range(Describe(list, n)) \subseteq Range(list)
  <1> DEFINE k == (Len(list) + PageSize - 1) \div PageSize
  <1>1. CASE n = Pages(list)
    BY <1>1 DEF Describe
  <1>2. CASE n # Pages(list)
    <2>1. Len(list) \in Nat /\ PageSize \in Nat \ {0}
      BY RegistryAssumption
    <2>2. k * PageSize <= Len(list) + PageSize - 1 /\ k \in Nat
      BY <2>1
    <2>3. Pages(list) = k
      BY <1>2 DEF Pages
    <2> HIDE DEF k
    <2>4. n \in Nat /\ n <= k - 1
      BY <1>2, <2>2, <2>3
    <2>5. n * PageSize <= (k - 1) * PageSize
      BY <2>1, <2>2, <2>4
    <2>6. n * PageSize \in Nat /\ n * PageSize <= Len(list)
      BY <2>1, <2>2, <2>4, <2>5
    <2> DEFINE m == n * PageSize
    <2>7. Describe(list, n) = SubSeq(list, 1, m)
      BY <1>2 DEF Describe
    <2>8. m \in 0..Len(list)
      BY <2>1, <2>6
    <2> HIDE DEF m
    <2>9. /\ SubSeq(list, 1, m) \in Seq(Images) /\ DOMAIN SubSeq(list, 1, m) = 1..m
          /\ \A i \in 1..m : SubSeq(list, 1, m)[i] = list[i] /\ i \in DOMAIN list
      BY <2>1, <2>8
    <2> QED
      BY <2>7, <2>9 DEF Range
  <1> QED
    BY <1>1, <1>2

-----------------------------------------------------------------------------
(* What the process has found, and how far it answers the requests.        *)

\* The version v is of a chart in the list that has its name as a tag.
Located(list, v) ==
    \E d \in Range(list) : IsChart(d) /\ v.name \in Range(d.tags) /\ v.digest = d.dig

\* A package of the process: its versions are where the registry E has them, but for tags
\* that have moved, and a first version that is complete is so with its own chart.
PackageOK(p, E, moved) ==
    /\ p.versions # <<>>
    /\ \A v \in Range(p.versions) :
          <<p.repository, v.name>> \notin moved => Located(E[p.repository], v)
    /\ p.registry = None /\ <<p.repository, p.versions[1].name>> \notin moved =>
          Requires[p.versions[1].digest] = "no" \/ p.versions[1].chart = p.versions[1].digest

\* The registry is one, and a tag is on one image of a repository.
RegistryInv ==
    /\ ecr \in [Repositories -> Seq(Images)] /\ clock \in Nat
    /\ \A r \in Repositories : TagsApart(ecr[r])

\* The packages of the process are what PackageOK says of each.
PackagesInv ==
    g # None /\ g.packages # None =>
        /\ g.packages \in Seq(BundlePackages)
        /\ \A i \in DOMAIN g.packages : PackageOK(g.packages[i], ecr, g.moved)

\* No tag has moved and no page was lost since the process began.
Intact == g.moved = {} /\ ~g.lost
\* Where the input file of the process has been read.
Asked == {"lookup", "chart", "sign", "write", "done"}

\* The packages answer the requests of the input file, project by project.
RequestInv ==
    g # None /\ g.pc \in Asked /\ g.packages # None =>
        /\ Len(g.packages) <= Len(Input.projects)
        /\ \A i \in DOMAIN g.packages :
              /\ g.packages[i].repository = Input.projects[i].repository
              /\ Intact => \A j \in DOMAIN Input.projects[i].wanted :
                    Answered(Input.projects[i].wanted[j], ecr[Input.projects[i].repository],
                             g.packages[i].versions)

\* So do, for the project that is looked up, the versions that are found.
LookupInv ==
    g # None /\ g.pc = "lookup" =>
        /\ g.index \in DOMAIN Input.projects /\ g.tag \in Nat \ {0}
        /\ IF g.index = 1 THEN g.packages = None
           ELSE g.packages # None /\ Len(g.packages) = g.index - 1
        /\ g.versions \in Seq(SourceVersions)
        /\ \A v \in Range(g.versions) :
              <<Project.repository, v.name>> \notin g.moved => Located(List, v)
        /\ Intact => \A j \in DOMAIN Project.wanted :
              j < g.tag => Answered(Project.wanted[j], List, g.versions)

\* When the lookups are done, each project has its package.
ChartInv ==
    g # None =>
        /\ g.lost \in BOOLEAN
        /\ g.pc \in Asked \ {"lookup"} =>
              IF Input.projects = <<>> THEN g.packages = None
              ELSE g.packages # None /\ Len(g.packages) = Len(Input.projects)
        /\ g.pc = "chart" /\ g.packages # None => g.index \in DOMAIN g.packages

\* The invariant of the lookups and the charts.
QInv == RegistryInv /\ PackagesInv /\ RequestInv /\ LookupInv /\ ChartInv

\* Two versions of one name that are located in one list are one.
LEMMA OneImagePerTag ==
    ASSUME NEW list, TagsApart(list), NEW v, NEW w, Located(list, v), Located(list, w),
           v.name = w.name
    PROVE  v.digest = w.digest
  <1>1. PICK d \in Range(list) : v.name \in Range(d.tags) /\ v.digest = d.dig
    BY DEF Located
  <1>2. PICK e \in Range(list) : w.name \in Range(e.tags) /\ w.digest = e.dig
    BY DEF Located
  <1>3. d = e
    BY <1>1, <1>2 DEF TagsApart
  <1> QED
    BY <1>1, <1>2, <1>3

\* A request that is answered stays so with more versions.
LEMMA AnsweredByMore ==
    ASSUME NEW t, NEW list, NEW vs, NEW ws, Answered(t, list, vs), Range(vs) \subseteq Range(ws)
    PROVE  Answered(t, list, ws)
  BY DEF Answered

\* It stays so without duplicates.
LEMMA AnsweredOnce ==
    ASSUME NEW t, NEW list, TagsApart(list), NEW vs \in Seq(SourceVersions),
           \A v \in Range(vs) : Located(list, v), Answered(t, list, vs)
    PROVE  Answered(t, list, removeDuplicates(vs))
  <1> DEFINE l == removeDuplicates(vs)
             meant == {d \in Range(list) : IsChart(d) /\ Means(t, list, d)}
  <1>1. /\ Range(l) \subseteq Range(vs)
        /\ \A v \in Range(vs) : \E w \in Range(l) : w.name = v.name
    BY OneOfEachName
  <1> HIDE DEF l
  <1>2. ASSUME NEW v \in Range(vs) PROVE \E w \in Range(l) : w.digest = v.digest
    <2>1. PICK w \in Range(l) : w.name = v.name
      BY <1>1
    <2>2. w.digest = v.digest
      BY <1>1, <2>1, OneImagePerTag
    <2> QED
      BY <2>2
  <1>3. Kind[t] = "other" \/ meant = {} \/ \E d \in meant, v \in Range(vs) : v.digest = d.dig
    BY DEF Answered
  <1> HIDE DEF meant
  <1>4. Kind[t] = "other" \/ meant = {} \/ \E d \in meant, w \in Range(l) : w.digest = d.dig
    BY <1>2, <1>3
  <1> QED
    BY <1>4 DEF Answered, meant, l

\* The elements of two lists, one after the other.
LEMMA RangeConcat ==
    ASSUME NEW V, NEW l \in Seq(V), NEW m \in Seq(V)
    PROVE  l \o m \in Seq(V) /\ Range(l \o m) = Range(l) \cup Range(m)
  <1>1. /\ l \o m \in Seq(V) /\ DOMAIN (l \o m) = 1..(Len(l) + Len(m))
        /\ DOMAIN l = 1..Len(l) /\ DOMAIN m = 1..Len(m)
        /\ Len(l) \in Nat /\ Len(m) \in Nat
        /\ \A i \in 1..Len(l) : (l \o m)[i] = l[i]
        /\ \A i \in 1..Len(m) : (l \o m)[Len(l) + i] = m[i]
    OBVIOUS
  <1>2. ASSUME NEW i \in 1..(Len(l) + Len(m)) PROVE i \in 1..Len(l) \/ i - Len(l) \in 1..Len(m)
    BY <1>1
  <1>3. ASSUME NEW x \in Range(l \o m) PROVE x \in Range(l) \cup Range(m)
    <2>1. PICK i \in 1..(Len(l) + Len(m)) : x = (l \o m)[i]
      BY <1>1 DEF Range
    <2>2. CASE i \in 1..Len(l)
      BY <1>1, <2>1, <2>2 DEF Range
    <2>3. CASE i - Len(l) \in 1..Len(m)
      <3>1. Len(l) + (i - Len(l)) = i
        BY <1>1
      <3>2. x = m[i - Len(l)]
        BY <1>1, <2>1, <2>3, <3>1
      <3> QED
        BY <1>1, <2>3, <3>2 DEF Range
    <2> QED
      BY <1>2, <2>2, <2>3
  <1>4. ASSUME NEW x \in Range(l) PROVE x \in Range(l \o m)
    <2>1. PICK i \in 1..Len(l) : x = l[i]
      BY <1>1 DEF Range
    <2>2. i \in DOMAIN (l \o m) /\ x = (l \o m)[i]
      BY <1>1, <2>1
    <2> QED
      BY <2>2 DEF Range
  <1>5. ASSUME NEW x \in Range(m) PROVE x \in Range(l \o m)
    <2>1. PICK i \in 1..Len(m) : x = m[i]
      BY <1>1 DEF Range
    <2>2. Len(l) + i \in DOMAIN (l \o m) /\ x = (l \o m)[Len(l) + i]
      BY <1>1, <2>1
    <2> QED
      BY <2>2 DEF Range
  <1> QED
    BY <1>1, <1>3, <1>4, <1>5

-----------------------------------------------------------------------------
(* A push.  It takes its tags from the images that had them.               *)

\* An image that loses the tags of a push.
Cut(d, tags) == [d EXCEPT !.tags = Only(@, Tags \ Range(tags))]

\* It loses these tags and nothing else.
LEMMA CutImage ==
    ASSUME NEW d \in Images, NEW tags \in Seq(Tags)
    PROVE  /\ Cut(d, tags) \in Images
           /\ Cut(d, tags).dig = d.dig /\ Cut(d, tags).at = d.at
           /\ Range(Cut(d, tags).tags) = Range(d.tags) \ Range(tags)
  <1>1. d.tags \in Seq(Tags)
    BY DEF Images
  <1>2. /\ Only(d.tags, Tags \ Range(tags)) \in Seq(Tags)
        /\ Range(Only(d.tags, Tags \ Range(tags))) = Range(d.tags) \cap (Tags \ Range(tags))
    BY <1>1, OnlyKeeps
  <1>3. Range(d.tags) \subseteq Tags
    BY <1>1 DEF Range
  <1> QED
    BY <1>2, <1>3 DEF Cut, Images

\* A list is empty if nothing is in it.
LEMMA EmptyRange ==
    ASSUME NEW V, NEW l \in Seq(V) PROVE (l = <<>>) <=> (Range(l) = {})
  <1>1. l = <<>> => Range(l) = {}
    BY DEF Range
  <1>2. ASSUME l # <<>> PROVE Range(l) # {}
    <2>1. 1 \in DOMAIN l
      BY <1>2
    <2> QED
      BY <2>1 DEF Range
  <1> QED
    BY <1>1, <1>2

\* The elements of a list are of its type.
LEMMA RangeOf ==
    ASSUME NEW V, NEW l \in Seq(V) PROVE Range(l) \subseteq V /\ \A i \in DOMAIN l : l[i] \in V
  BY DEF Range

\* What a push makes of a list.
Pushed(list, image, new) ==
    LET others == [i \in DOMAIN list |-> Cut(list[i], image.tags)] IN
    new \in {Append(others, image), <<image>> \o others}

\* The images after a push are the new one and the others without its tags.
LEMMA PushedRange ==
    ASSUME NEW list \in Seq(Images), NEW image \in Images, NEW new, Pushed(list, image, new)
    PROVE  /\ new \in Seq(Images)
           /\ Range(new) = {image} \cup {Cut(d, image.tags) : d \in Range(list)}
  <1> DEFINE others == [i \in DOMAIN list |-> Cut(list[i], image.tags)]
  <1>1. image.tags \in Seq(Tags) /\ \A i \in DOMAIN list : list[i] \in Images
    <2>1. image.tags \in Seq(Tags)
      BY DEF Images
    <2> QED
      BY <2>1, RangeOf
  <1>2. \A i \in DOMAIN list : Cut(list[i], image.tags) \in Images
    BY <1>1, CutImage
  <1>3. others \in Seq(Images)
    <2>1. DOMAIN list = 1..Len(list) /\ Len(list) \in Nat
      OBVIOUS
    <2> QED
      BY <1>2, <2>1
  <1>4. Range(others) = {Cut(d, image.tags) : d \in Range(list)}
    BY DEF Range
  <1> HIDE DEF others
  <1>5. new = Append(others, image) \/ new = <<image>> \o others
    BY DEF Pushed, others
  <1>6. <<image>> \in Seq(Images) /\ Range(<<image>>) = {image}
    BY DEF Range
  <1>7. CASE new = Append(others, image)
    <2>1. /\ Append(others, image) \in Seq(Images)
          /\ Range(Append(others, image)) = Range(others) \cup {image}
      BY <1>3, RangeAppend
    <2> QED
      BY <1>4, <1>7, <2>1
  <1>8. CASE new = <<image>> \o others
    <2>1. /\ <<image>> \o others \in Seq(Images)
          /\ Range(<<image>> \o others) = Range(<<image>>) \cup Range(others)
      <3> DEFINE one == <<image>>
      <3>1. one \in Seq(Images)
        BY <1>6
      <3> HIDE DEF one
      <3>2. one \o others \in Seq(Images) /\ Range(one \o others) = Range(one) \cup Range(others)
        BY <1>3, <3>1, RangeConcat
      <3> QED
        BY <3>2 DEF one
    <2> QED
      BY <1>4, <1>6, <1>8, <2>1
  <1> QED
    BY <1>5, <1>7, <1>8

\* Tags stay apart, and versions whose tags are not pushed stay where they are.
LEMMA PushedKeeps ==
    ASSUME NEW list \in Seq(Images), TagsApart(list), NEW image \in Images, NEW new,
           Pushed(list, image, new)
    PROVE  /\ TagsApart(new)
           /\ \A v : Located(list, v) /\ v.name \notin Range(image.tags) => Located(new, v)
  <1>1. image.tags \in Seq(Tags) /\ Range(list) \subseteq Images
    <2>1. image.tags \in Seq(Tags)
      BY DEF Images
    <2> QED
      BY <2>1, RangeOf
  <1>2. Range(new) = {image} \cup {Cut(d, image.tags) : d \in Range(list)}
    BY PushedRange
  <1>3. \A d \in Range(list) : /\ Cut(d, image.tags) \in Images
                               /\ Cut(d, image.tags).dig = d.dig
                               /\ Range(Cut(d, image.tags).tags) = Range(d.tags) \ Range(image.tags)
    BY <1>1, CutImage
  <1>4. TagsApart(new)
    <2> SUFFICES ASSUME NEW a \in Range(new), NEW b \in Range(new), a # b
                 PROVE  Range(a.tags) \cap Range(b.tags) = {}
      BY DEF TagsApart
    <2>1. CASE a = image \/ b = image
      BY <1>2, <1>3, <2>1
    <2>2. CASE a # image /\ b # image
      <3>1. PICK d \in Range(list) : a = Cut(d, image.tags)
        BY <1>2, <2>2
      <3>2. PICK e \in Range(list) : b = Cut(e, image.tags)
        BY <1>2, <2>2
      <3>3. Range(d.tags) \cap Range(e.tags) = {}
        BY <3>1, <3>2 DEF TagsApart
      <3> QED
        BY <1>3, <3>1, <3>2, <3>3
    <2> QED
      BY <2>1, <2>2
  <1>5. ASSUME NEW v, Located(list, v), v.name \notin Range(image.tags) PROVE Located(new, v)
    <2>1. PICK d \in Range(list) : IsChart(d) /\ v.name \in Range(d.tags) /\ v.digest = d.dig
      BY <1>5 DEF Located
    <2> DEFINE e == Cut(d, image.tags)
    <2>2. e \in Range(new) /\ e.dig = d.dig /\ v.name \in Range(e.tags) /\ e.tags \in Seq(Tags)
      BY <1>2, <1>3, <1>5, <2>1 DEF Images
    <2> HIDE DEF e
    <2>3. e.tags # <<>>
      BY <2>2, EmptyRange
    <2> QED
      BY <2>1, <2>2, <2>3 DEF Located, IsChart
  <1> QED
    BY <1>4, <1>5

\* A push without tags changes no answer.
LEMMA PushedAnswers ==
    ASSUME NEW list \in Seq(Images), NEW image \in Images, image.tags = <<>>, NEW new,
           Pushed(list, image, new), NEW t, NEW vs, Answered(t, list, vs)
    PROVE  Answered(t, new, vs)
  <1> DEFINE C(d) == Cut(d, image.tags)
  <1>1. image.tags \in Seq(Tags) /\ Range(image.tags) = {} /\ Range(list) \subseteq Images
    <2>1. image.tags \in Seq(Tags)
      BY DEF Images
    <2> QED
      BY <2>1, RangeOf, EmptyRange
  <1>2. Range(new) = {image} \cup {C(d) : d \in Range(list)}
    BY PushedRange
  <1>3. ASSUME NEW d \in Range(list)
        PROVE  C(d).dig = d.dig /\ C(d).at = d.at /\ Range(C(d).tags) = Range(d.tags)
               /\ (IsChart(C(d)) <=> IsChart(d))
    <2>1. /\ d \in Images /\ C(d) \in Images /\ C(d).dig = d.dig /\ C(d).at = d.at
          /\ Range(C(d).tags) = Range(d.tags) \ Range(image.tags)
      BY <1>1, CutImage
    <2>2. d.tags \in Seq(Tags) /\ C(d).tags \in Seq(Tags)
      BY <2>1 DEF Images
    <2> HIDE DEF C
    <2>3. (C(d).tags = <<>>) <=> (d.tags = <<>>)
      BY <1>1, <2>1, <2>2, EmptyRange
    <2> QED
      BY <1>1, <2>1, <2>3 DEF IsChart
  <1>4. ~IsChart(image)
    BY DEF IsChart
  <1> HIDE DEF C
  <1>5. ASSUME NEW d \in Range(list) PROVE Means(t, new, C(d)) <=> Means(t, list, d)
    BY <1>2, <1>3, <1>4 DEF Means
  <1> DEFINE meant == {d \in Range(list) : IsChart(d) /\ Means(t, list, d)}
             found == {d \in Range(new) : IsChart(d) /\ Means(t, new, d)}
  <1>6. found = {C(d) : d \in meant}
    BY <1>2, <1>3, <1>4, <1>5
  <1>7. \A d \in meant : C(d).dig = d.dig
    BY <1>3
  <1>8. Kind[t] = "other" \/ meant = {} \/ \E d \in meant, v \in Range(vs) : v.digest = d.dig
    BY DEF Answered
  <1> HIDE DEF meant, found
  <1>9. Kind[t] = "other" \/ found = {} \/ \E d \in found, v \in Range(vs) : v.digest = d.dig
    BY <1>6, <1>7, <1>8
  <1> QED
    BY <1>9 DEF Answered, found

\* The input file of the process is one of those it was started on.
LEMMA InputTyped ==
    ASSUME PInv, g # None
    PROVE  /\ DOMAIN g = ProcessFields /\ Input.projects \in Seq(Projects)
           /\ DOMAIN Input.projects = 1..Len(Input.projects) /\ Len(Input.projects) \in Nat
           /\ \A i \in DOMAIN Input.projects :
                 /\ Input.projects[i].repository \in Repositories
                 /\ Input.projects[i].wanted \in Seq(Tags) /\ Input.projects[i].name \in STRING
  <1>1. g.files \in Invocations /\ g.file \in 1..Len(g.files) /\ DOMAIN g = ProcessFields
    BY DEF PInv, ProcessInv
  <1>2. Input.projects \in Seq(Projects)
    BY <1>1, InputsAssumption DEF Input
  <1>3. \A i \in DOMAIN Input.projects : Input.projects[i] \in Projects
    BY <1>2, RangeOf
  <1>4. ASSUME NEW x \in Projects
        PROVE  x.repository \in Repositories /\ x.wanted \in Seq(Tags) /\ x.name \in STRING
    BY <1>4 DEF Projects
  <1>5. DOMAIN Input.projects = 1..Len(Input.projects) /\ Len(Input.projects) \in Nat
    BY <1>2
  <1> QED
    BY <1>1, <1>2, <1>3, <1>4, <1>5

\* The packages keep what is said of them when the registry changes under recorded tags.
LEMMA PackageKeeps ==
    ASSUME NEW E, NEW F, NEW moved, NEW more, moved \subseteq more, NEW p \in BundlePackages,
           PackageOK(p, E, moved),
           \A q \in Repositories : \A v :
              Located(E[q], v) /\ <<q, v.name>> \notin more => Located(F[q], v)
    PROVE  PackageOK(p, F, more)
  <1>1. p.repository \in Repositories
    BY DEF BundlePackages
  <1> QED
    BY <1>1 DEF PackageOK

\* A push while the process runs: it takes tags from the images that had them, and records
\* them as moved.
LEMMA PushStep == ASSUME PInv, QInv, NEW p \in Pushes, Push(p) PROVE QInv'
  <1> DEFINE r == p.repository
             image == [dig |-> p.dig, tags |-> p.tags, at |-> clock + 1]
             gone == {<<r, t>> : t \in Range(p.tags)}
  <1>1. r \in Repositories /\ p.dig \in Charts /\ p.tags \in Seq(Tags)
    BY StockAssumption
  <1>2. clock \in Nat /\ clock' = clock + 1
    BY DEF Push, QInv, RegistryInv
  <1>3. image \in Images
    BY <1>1, <1>2 DEF Images
  <1>4. ecr \in [Repositories -> Seq(Images)] /\ \A q \in Repositories : TagsApart(ecr[q])
    BY DEF QInv, RegistryInv
  <1>5. \E new : ecr' = [ecr EXCEPT ![r] = new] /\ Pushed(ecr[r], image, new)
    BY DEF Push, Pushed, Cut
  <1>6. g' = IF g = None THEN None ELSE [g EXCEPT !.moved = @ \cup gone]
    BY DEF Push
  <1> HIDE DEF image
  <1>7. PICK new : ecr' = [ecr EXCEPT ![r] = new] /\ Pushed(ecr[r], image, new)
    BY <1>5
  <1>8. /\ new \in Seq(Images) /\ TagsApart(new)
        /\ \A v : Located(ecr[r], v) /\ v.name \notin Range(p.tags) => Located(new, v)
        /\ p.tags = <<>> => \A t, vs : Answered(t, ecr[r], vs) => Answered(t, new, vs)
    <2>1. ecr[r] \in Seq(Images) /\ TagsApart(ecr[r]) /\ image.tags = p.tags
      BY <1>1, <1>4 DEF image
    <2>2. new \in Seq(Images)
      BY <1>3, <1>7, <2>1, PushedRange
    <2>3. /\ TagsApart(new)
          /\ \A v : Located(ecr[r], v) /\ v.name \notin Range(image.tags) => Located(new, v)
      BY <1>3, <1>7, <2>1, PushedKeeps
    <2>4. ASSUME p.tags = <<>>, NEW t, NEW vs, Answered(t, ecr[r], vs) PROVE Answered(t, new, vs)
      BY <1>3, <1>7, <2>1, <2>4, PushedAnswers
    <2> QED
      BY <2>1, <2>2, <2>3, <2>4
  <1>9. \A q \in Repositories : ecr'[q] = IF q = r THEN new ELSE ecr[q]
    BY <1>4, <1>7
  <1>10. RegistryInv'
    BY <1>1, <1>2, <1>4, <1>7, <1>8, <1>9 DEF RegistryInv
  <1>11. \A q \in Repositories : \A v :
            Located(ecr[q], v) /\ <<q, v.name>> \notin gone => Located(ecr'[q], v)
    BY <1>8, <1>9
  <1>12. p.tags = <<>> => \A q \in Repositories : \A t, vs :
            Answered(t, ecr[q], vs) => Answered(t, ecr'[q], vs)
    BY <1>8, <1>9
  <1>13. CASE g = None
    BY <1>6, <1>10, <1>13 DEF QInv, PackagesInv, RequestInv, LookupInv, ChartInv
  <1>14. CASE g # None
    <2> DEFINE h == [g EXCEPT !.moved = @ \cup gone]
    <2>1. g' = h
      BY <1>6, <1>14
    <2>2. DOMAIN g = ProcessFields
      BY <1>14, InputTyped
    <2>3. /\ h.pc = g.pc /\ h.files = g.files /\ h.file = g.file /\ h.index = g.index
          /\ h.tag = g.tag /\ h.versions = g.versions /\ h.packages = g.packages
          /\ h.lost = g.lost /\ h.moved = g.moved \cup gone
      BY <2>2 DEF ProcessFields
    <2> HIDE DEF h, gone
    <2>4. Input' = Input /\ Project' = Project /\ Wanted' = Wanted
      BY <2>1, <2>3 DEF Input, Project, Wanted
    <2>5. Intact' => Intact /\ p.tags = <<>>
      <3>1. ASSUME g.moved \cup gone = {} PROVE g.moved = {} /\ p.tags = <<>>
        <4>1. gone = {} /\ g.moved = {}
          BY <3>1
        <4>2. Range(p.tags) = {}
          BY <4>1 DEF gone
        <4> QED
          BY <1>1, <4>1, <4>2, EmptyRange
      <3> QED
        BY <2>1, <2>3, <3>1 DEF Intact
    <2>6. PackagesInv'
      <3> SUFFICES ASSUME g.packages # None
                   PROVE  /\ g.packages \in Seq(BundlePackages)
                          /\ \A i \in DOMAIN g.packages :
                                PackageOK(g.packages[i], ecr', g.moved \cup gone)
        BY <2>1, <2>3 DEF PackagesInv
      <3>1. /\ g.packages \in Seq(BundlePackages)
            /\ \A i \in DOMAIN g.packages : PackageOK(g.packages[i], ecr, g.moved)
        BY <1>14 DEF QInv, PackagesInv
      <3>2. \A i \in DOMAIN g.packages : g.packages[i] \in BundlePackages
        BY <3>1, RangeOf
      <3>3. g.moved \subseteq g.moved \cup gone
        OBVIOUS
      <3>4. \A q \in Repositories : \A v :
               Located(ecr[q], v) /\ <<q, v.name>> \notin g.moved \cup gone => Located(ecr'[q], v)
        BY <1>11
      <3> QED
        BY <3>1, <3>2, <3>3, <3>4, PackageKeeps
    <2>7. RequestInv'
      <3> SUFFICES ASSUME g.pc \in Asked, g.packages # None
                   PROVE  /\ Len(g.packages) <= Len(Input.projects)
                          /\ \A i \in DOMAIN g.packages :
                                /\ g.packages[i].repository = Input.projects[i].repository
                                /\ Intact' => \A j \in DOMAIN Input.projects[i].wanted :
                                      Answered(Input.projects[i].wanted[j],
                                               ecr'[Input.projects[i].repository],
                                               g.packages[i].versions)
        BY <2>1, <2>3, <2>4 DEF RequestInv
      <3>1. /\ Len(g.packages) <= Len(Input.projects)
            /\ \A i \in DOMAIN g.packages :
                  /\ g.packages[i].repository = Input.projects[i].repository
                  /\ Intact => \A j \in DOMAIN Input.projects[i].wanted :
                        Answered(Input.projects[i].wanted[j], ecr[Input.projects[i].repository],
                                 g.packages[i].versions)
        BY <1>14 DEF QInv, RequestInv
      <3>2. g.packages \in Seq(BundlePackages)
        BY <1>14 DEF QInv, PackagesInv
      <3>3. \A i \in DOMAIN g.packages : Input.projects[i].repository \in Repositories
        <4>1. \A i \in DOMAIN g.packages : i \in DOMAIN Input.projects
          BY <1>14, <3>1, <3>2, InputTyped
        <4> QED
          BY <1>14, <4>1, InputTyped
      <3> QED
        BY <1>12, <2>5, <3>1, <3>3
    <2>8. LookupInv'
      <3> SUFFICES ASSUME g.pc = "lookup" PROVE LookupInv'
        BY <2>1, <2>3 DEF LookupInv
      <3>1. /\ g.index \in DOMAIN Input.projects /\ g.tag \in Nat \ {0}
            /\ IF g.index = 1 THEN g.packages = None
               ELSE g.packages # None /\ Len(g.packages) = g.index - 1
            /\ g.versions \in Seq(SourceVersions)
            /\ \A v \in Range(g.versions) :
                  <<Project.repository, v.name>> \notin g.moved =>
                     Located(ecr[Project.repository], v)
            /\ Intact => \A j \in DOMAIN Project.wanted :
                  j < g.tag => Answered(Project.wanted[j], ecr[Project.repository], g.versions)
        BY <1>14 DEF QInv, LookupInv, List
      <3>2. Project.repository \in Repositories
        BY <1>14, <3>1, InputTyped DEF Project
      <3>3. List' = ecr'[Project.repository]
        BY <2>4 DEF List
      <3>4. \A v \in Range(g.versions) :
                  <<Project.repository, v.name>> \notin g.moved \cup gone =>
                     Located(ecr'[Project.repository], v)
        BY <1>11, <3>1, <3>2
      <3>5. Intact' => \A j \in DOMAIN Project.wanted :
                  j < g.tag => Answered(Project.wanted[j], ecr'[Project.repository], g.versions)
        BY <1>12, <2>5, <3>1, <3>2
      <3> QED
        BY <2>1, <2>3, <2>4, <3>1, <3>3, <3>4, <3>5 DEF LookupInv
    <2>9. ChartInv'
      BY <1>14, <2>1, <2>3, <2>4 DEF QInv, ChartInv
    <2> QED
      BY <1>10, <2>6, <2>7, <2>8, <2>9 DEF QInv
  <1> QED
    BY <1>13, <1>14

-----------------------------------------------------------------------------
(* The lookups.                                                            *)

\* What the answers to a lookup do: the versions vs are of charts of the repository, and
\* answer the request unless pages are lost.
LEMMA FoundStep ==
    ASSUME PInv, QInv, Running("lookup"), g.tag \in DOMAIN Project.wanted,
           NEW vs \in Seq(SourceVersions), \A v \in Range(vs) : Located(List, v),
           NEW lost \in BOOLEAN, ~lost => Answered(Wanted, List, vs),
           Found(vs, lost), UNCHANGED <<ecr, clock>>
    PROVE  QInv'
  <1> DEFINE all == g.versions \o vs
             projects == Input.projects
             r == Project.repository
  <1>1. g # None /\ g.pc = "lookup"
    BY DEF Running
  <1>2. /\ g.index \in DOMAIN projects /\ g.tag \in Nat \ {0}
        /\ IF g.index = 1 THEN g.packages = None
           ELSE g.packages # None /\ Len(g.packages) = g.index - 1
        /\ g.versions \in Seq(SourceVersions)
        /\ \A v \in Range(g.versions) : <<r, v.name>> \notin g.moved => Located(List, v)
        /\ Intact => \A j \in DOMAIN Project.wanted :
              j < g.tag => Answered(Project.wanted[j], List, g.versions)
    BY <1>1 DEF QInv, LookupInv
  <1>3. /\ DOMAIN g = ProcessFields /\ DOMAIN projects = 1..Len(projects) /\ Len(projects) \in Nat
        /\ r \in Repositories /\ Project.wanted \in Seq(Tags) /\ Project.name \in STRING
        /\ Project = projects[g.index]
    BY <1>1, <1>2, InputTyped DEF Project
  <1>4. g.lost \in BOOLEAN
    BY <1>1 DEF QInv, ChartInv
  <1>5. /\ all \in Seq(SourceVersions) /\ Range(all) = Range(g.versions) \cup Range(vs)
        /\ Range(g.versions) \subseteq Range(all) /\ Range(vs) \subseteq Range(all)
    BY <1>2, RangeConcat
  <1> HIDE DEF all
  <1>6. \A v \in Range(all) : <<r, v.name>> \notin g.moved => Located(List, v)
    BY <1>2, <1>5
  <1>7. Intact /\ ~lost => \A j \in DOMAIN Project.wanted :
            j < g.tag + 1 => Answered(Project.wanted[j], List, all)
    <2> SUFFICES ASSUME Intact, ~lost, NEW j \in DOMAIN Project.wanted, j < g.tag + 1
                 PROVE  Answered(Project.wanted[j], List, all)
      OBVIOUS
    <2>1. j \in Nat
      BY <1>3
    <2>2. CASE j < g.tag
      BY <1>2, <1>5, <2>2, AnsweredByMore
    <2>3. CASE j = g.tag
      BY <1>5, <2>3, AnsweredByMore DEF Wanted
    <2> QED
      BY <1>2, <2>1, <2>2, <2>3
  <1>8. /\ g.packages # None => g.packages \in Seq(BundlePackages)
        /\ g.packages # None => \A i \in DOMAIN g.packages : PackageOK(g.packages[i], ecr, g.moved)
        /\ g.packages # None => \A i \in DOMAIN g.packages :
              /\ g.packages[i].repository = projects[i].repository
              /\ Intact => \A j \in DOMAIN projects[i].wanted :
                    Answered(projects[i].wanted[j], ecr[projects[i].repository],
                             g.packages[i].versions)
    BY <1>1 DEF QInv, PackagesInv, RequestInv, Asked
  <1>9. RegistryInv' /\ TagsApart(List) /\ List = ecr[r]
    BY <1>3 DEF QInv, RegistryInv, List
  <1>10. CASE g.tag < Len(Project.wanted)
    <2>1. g' = [[g EXCEPT !.lost = @ \/ lost] EXCEPT !.tag = @ + 1, !.versions = all]
      BY <1>10 DEF Found, all
    <2>2. /\ g'.pc = g.pc /\ g'.files = g.files /\ g'.file = g.file /\ g'.index = g.index
          /\ g'.tag = g.tag + 1 /\ g'.versions = all /\ g'.packages = g.packages
          /\ g'.lost = (g.lost \/ lost) /\ g'.moved = g.moved
      BY <1>3, <2>1 DEF ProcessFields
    <2>3. Input' = Input /\ Project' = Project /\ List' = List
      BY <2>2 DEF Input, Project, List
    <2>4. Intact' => Intact /\ ~lost
      BY <2>2 DEF Intact
    <2>5. PackagesInv'
      BY <1>1, <2>2 DEF QInv, PackagesInv
    <2>6. RequestInv'
      BY <1>1, <2>2, <2>3, <2>4 DEF QInv, RequestInv
    <2>7. LookupInv'
      <3>1. g.tag + 1 \in Nat \ {0}
        BY <1>2
      <3>2. Intact' => \A j \in DOMAIN Project.wanted :
                j < g.tag + 1 => Answered(Project.wanted[j], List, all)
        BY <1>7, <2>4
      <3> QED
        BY <1>2, <1>5, <1>6, <2>2, <2>3, <3>1, <3>2 DEF LookupInv
    <2>8. ChartInv'
      BY <1>1, <1>4, <2>2 DEF ChartInv, Asked
    <2> QED
      BY <1>9, <2>5, <2>6, <2>7, <2>8 DEF QInv
  <1>11. CASE g' = None
    BY <1>9, <1>11 DEF QInv, PackagesInv, RequestInv, LookupInv, ChartInv
  <1>12. CASE ~(g.tag < Len(Project.wanted)) /\ all # <<>>
    <2> DEFINE more == g.index < Len(projects)
               old == IF g.packages = None THEN <<>> ELSE g.packages
               p == BundlePackage(removeDuplicates(all))
               new == Append(old, p)
    <2>1. /\ g' = [[g EXCEPT !.lost = @ \/ lost] EXCEPT
                      !.tag = 1, !.versions = <<>>, !.packages = new,
                      !.index = IF more THEN @ + 1 ELSE 1,
                      !.pc = IF more THEN "lookup" ELSE "chart"]
      BY <1>3, <1>12 DEF Found, all, ProcessFields
    <2>2. /\ g'.pc = (IF more THEN "lookup" ELSE "chart") /\ g'.files = g.files
          /\ g'.file = g.file /\ g'.index = (IF more THEN g.index + 1 ELSE 1)
          /\ g'.tag = 1 /\ g'.versions = <<>> /\ g'.packages = new
          /\ g'.lost = (g.lost \/ lost) /\ g'.moved = g.moved
      <3> HIDE DEF new, more
      <3> QED
        BY <1>3, <2>1 DEF ProcessFields
    <2>3. Input' = Input
      BY <2>2 DEF Input
    <2>4. Intact' => Intact /\ ~lost
      BY <2>2 DEF Intact
    <2>5. /\ removeDuplicates(all) \in Seq(SourceVersions)
          /\ Range(removeDuplicates(all)) \subseteq Range(all)
          /\ \A v \in Range(all) : \E w \in Range(removeDuplicates(all)) : w.name = v.name
      BY <1>5, OneOfEachName
    <2>6. removeDuplicates(all) # <<>>
      <3>1. Range(all) # {}
        BY <1>5, <1>12, EmptyRange
      <3> QED
        BY <2>5, <3>1, EmptyRange
    <2>7. /\ p \in BundlePackages /\ p.repository = r /\ p.versions = removeDuplicates(all)
          /\ p.registry = "ecr"
      BY <1>3, <2>5 DEF BundlePackage, BundlePackages
    <2> HIDE DEF p
    <2>8. PackageOK(p, ecr, g.moved)
      BY <1>6, <1>9, <2>5, <2>6, <2>7, NothingAssumption DEF PackageOK
    <2>9. Intact /\ ~lost => \A j \in DOMAIN Project.wanted :
             Answered(Project.wanted[j], ecr[r], p.versions)
      <3> SUFFICES ASSUME Intact, ~lost, NEW j \in DOMAIN Project.wanted
                   PROVE  Answered(Project.wanted[j], ecr[r], p.versions)
        OBVIOUS
      <3>1. j < g.tag + 1
        BY <1>2, <1>3, <1>12
      <3>2. \A v \in Range(all) : Located(List, v)
        BY <1>6 DEF Intact
      <3>3. Answered(Project.wanted[j], List, all)
        BY <1>7, <3>1
      <3> QED
        BY <1>5, <1>9, <2>7, <3>2, <3>3, AnsweredOnce
    <2>10. old \in Seq(BundlePackages) /\ Len(old) = g.index - 1 /\ g.index \in Nat \ {0}
      BY <1>2, <1>3, <1>8
    <2>11. /\ new \in Seq(BundlePackages) /\ Len(new) = g.index /\ DOMAIN new = 1..g.index
           /\ new[g.index] = p /\ \A i \in 1..(g.index - 1) : new[i] = old[i]
      <3> HIDE DEF old
      <3> QED
        BY <2>7, <2>10
    <2>12. \A i \in 1..g.index : i = g.index \/ i \in 1..(g.index - 1)
      BY <2>10
    <2>13. \A i \in 1..(g.index - 1) :
              g.packages # None /\ old = g.packages /\ i \in DOMAIN g.packages
      BY <1>2, <1>8, <2>10
    <2> HIDE DEF old, new
    <2>14. \A i \in DOMAIN new : PackageOK(new[i], ecr, g.moved)
      BY <1>8, <2>8, <2>11, <2>12, <2>13
    <2>15. \A i \in DOMAIN new :
              /\ new[i].repository = projects[i].repository
              /\ Intact' => \A j \in DOMAIN projects[i].wanted :
                    Answered(projects[i].wanted[j], ecr[projects[i].repository], new[i].versions)
      <3>1. \A i \in 1..(g.index - 1) :
              /\ new[i].repository = projects[i].repository
              /\ Intact' => \A j \in DOMAIN projects[i].wanted :
                    Answered(projects[i].wanted[j], ecr[projects[i].repository], new[i].versions)
        BY <1>8, <2>4, <2>11, <2>13
      <3>2. /\ new[g.index].repository = projects[g.index].repository
            /\ Intact' => \A j \in DOMAIN projects[g.index].wanted :
                  Answered(projects[g.index].wanted[j], ecr[projects[g.index].repository],
                           new[g.index].versions)
        BY <1>3, <2>4, <2>7, <2>9, <2>11
      <3> QED
        BY <2>11, <2>12, <3>1, <3>2
    <2>16. new # None
      BY <2>11, NothingAssumption
    <2>17. PackagesInv'
      BY <2>2, <2>11, <2>14 DEF PackagesInv
    <2>18. RequestInv'
      <3>1. Len(new) <= Len(projects)
        BY <1>2, <1>3, <2>10, <2>11
      <3> QED
        BY <2>2, <2>3, <2>15, <3>1 DEF RequestInv
    <2>19. LookupInv'
      <3> SUFFICES ASSUME more PROVE LookupInv'
        BY <2>2 DEF LookupInv
      <3>1. g.index + 1 \in DOMAIN projects /\ g.index + 1 # 1 /\ Len(new) = (g.index + 1) - 1
        BY <1>3, <2>10, <2>11
      <3>2. <<>> \in Seq(SourceVersions) /\ Range(<<>>) = {}
        BY DEF Range
      <3>3. \A j \in DOMAIN projects[g.index + 1].wanted : ~(j < 1)
        <4>1. projects[g.index + 1].wanted \in Seq(Tags)
          BY <1>1, <3>1, InputTyped
        <4> QED
          BY <4>1
      <3>4. Project' = projects[g.index + 1]
        BY <2>2, <2>3 DEF Project
      <3> QED
        BY <2>2, <2>3, <2>16, <3>1, <3>2, <3>3, <3>4 DEF LookupInv
    <2>20. ChartInv'
      <3>1. ~more => Len(new) = Len(projects) /\ projects # <<>> /\ 1 \in DOMAIN new
        BY <1>2, <1>3, <2>10, <2>11
      <3> QED
        BY <1>4, <2>2, <2>3, <2>16, <3>1 DEF ChartInv, Asked
    <2> QED
      BY <1>9, <2>17, <2>18, <2>19, <2>20 DEF QInv
  <1> QED
    BY <1>10, <1>11, <1>12 DEF Found, all

\* A version of a chart is located by the tag it is named after.
LEMMA VersionLocated ==
    ASSUME NEW list \in Seq(Images), NEW d \in Range(list), IsChart(d), NEW t \in Range(d.tags)
    PROVE  SourceVersion(t, d) \in SourceVersions /\ Located(list, SourceVersion(t, d))
  <1>1. d \in Images
    BY RangeOf
  <1>2. d.dig \in Charts /\ d.tags \in Seq(Tags)
    BY <1>1 DEF Images
  <1>3. t \in Tags
    BY <1>2, RangeOf
  <1> QED
    BY <1>2, <1>3 DEF SourceVersion, SourceVersions, Located

\* A request by tag finds the chart with the tag.
LEMMA LookupExactStep == ASSUME PInv, QInv, LookupExact PROVE QInv'
  <1>1. /\ LookingUp({"exact"}) /\ g # None /\ g.pc = "lookup" /\ g.tag \in DOMAIN Project.wanted
        /\ Kind[Wanted] = "exact" /\ UNCHANGED <<ecr, clock>>
    BY DEF LookupExact, LookingUp, Running, NotGenerator, Wanted
  <1>2. g.index \in DOMAIN Input.projects
    BY <1>1 DEF QInv, LookupInv
  <1>3. Project.repository \in Repositories
    BY <1>1, <1>2, InputTyped DEF Project
  <1>4. List \in Seq(Images) /\ TagsApart(List)
    BY <1>3 DEF QInv, RegistryInv, List
  <1>5. PICK i \in DOMAIN List :
            /\ Wanted \in Range(List[i].tags)
            /\ Found(IF IsChart(List[i]) THEN <<SourceVersion(Wanted, List[i])>> ELSE <<>>, FALSE)
    BY DEF LookupExact
  <1> DEFINE d == List[i]
             v == SourceVersion(Wanted, d)
             vs == IF IsChart(d) THEN <<v>> ELSE <<>>
  <1>6. d \in Range(List) /\ Wanted \in Range(d.tags) /\ v.digest = d.dig /\ Found(vs, FALSE)
    BY <1>5 DEF Range, SourceVersion
  <1> HIDE DEF d
  <1>7. vs \in Seq(SourceVersions) /\ \A w \in Range(vs) : Located(List, w)
    <2>1. CASE IsChart(d)
      <3>1. v \in SourceVersions /\ Located(List, v)
        BY <1>4, <1>6, <2>1, VersionLocated
      <3> HIDE DEF v
      <3>2. <<v>> \in Seq(SourceVersions) /\ Range(<<v>>) = {v}
        BY <3>1 DEF Range
      <3> QED
        BY <2>1, <3>1, <3>2
    <2>2. CASE ~IsChart(d)
      BY <2>2 DEF Range
    <2> QED
      BY <2>1, <2>2
  <1>8. Answered(Wanted, List, vs)
    <2> DEFINE meant == {e \in Range(List) : IsChart(e) /\ Means(Wanted, List, e)}
    <2>1. \A e \in meant : e = d
      BY <1>1, <1>4, <1>6 DEF Means, TagsApart
    <2>2. CASE IsChart(d)
      <3>1. v \in Range(vs)
        BY <2>2 DEF Range
      <3> HIDE DEF vs, v, meant
      <3>2. meant = {} \/ \E e \in meant, w \in Range(vs) : w.digest = e.dig
        BY <1>6, <2>1, <3>1
      <3> QED
        BY <3>2 DEF Answered, meant
    <2>3. CASE ~IsChart(d)
      BY <2>1, <2>3 DEF Answered
    <2> QED
      BY <2>2, <2>3
  <1> HIDE DEF vs
  <1> QED
    BY <1>1, <1>6, <1>7, <1>8, FoundStep DEF LookingUp

\* A request of no known kind finds nothing, and none is needed.
LEMMA LookupOtherStep == ASSUME PInv, QInv, LookupOther PROVE QInv'
  <1>1. /\ LookingUp({"other"}) /\ g.tag \in DOMAIN Project.wanted /\ Found(<<>>, FALSE)
        /\ Kind[Wanted] = "other" /\ UNCHANGED <<ecr, clock>> /\ Running("lookup")
    BY DEF LookupOther, LookingUp, NotGenerator, Wanted
  <1>2. /\ <<>> \in Seq(SourceVersions) /\ \A w \in Range(<<>>) : Located(List, w)
        /\ Answered(Wanted, List, <<>>)
    BY <1>1 DEF Range, Answered
  <1> QED
    BY <1>1, <1>2, FoundStep

\* A request for the latest finds the newest chart of those it is about.
LEMMA LookupLatestStep == ASSUME PInv, QInv, LookupLatest PROVE QInv'
  <1>1. /\ g # None /\ g.pc = "lookup" /\ g.tag \in DOMAIN Project.wanted /\ Running("lookup")
        /\ Kind[Wanted] \in {"latest", "version-latest"} /\ UNCHANGED <<ecr, clock>>
    BY DEF LookupLatest, LookingUp, Running, NotGenerator, Wanted
  <1>2. g.index \in DOMAIN Input.projects
    BY <1>1 DEF QInv, LookupInv
  <1>3. Project.repository \in Repositories
    BY <1>1, <1>2, InputTyped DEF Project
  <1>4. List \in Seq(Images) /\ TagsApart(List)
    BY <1>3 DEF QInv, RegistryInv, List
  <1>5. PICK n \in 1..Pages(List) :
          LET d == getLatestImageSha(ImageTagFilter(Describe(List, n), Wanted)) IN
          IF d = NoImage THEN g' = None
          ELSE Found(<<SourceVersion(d.tags[1], d)>>, n # Pages(List))
    BY DEF LookupLatest
  <1> DEFINE shown == Describe(List, n)
             kept == ImageTagFilter(shown, Wanted)
             d == getLatestImageSha(kept)
  <1>6. CASE g' = None
    BY <1>1, <1>6 DEF QInv, RegistryInv, PackagesInv, RequestInv, LookupInv, ChartInv
  <1>7. CASE g' # None
    <2>1. shown \in Seq(Images) /\ Range(shown) \subseteq Range(List)
      BY <1>4, PagesCover
    <2>2. n = Pages(List) => shown = List
      BY DEF Describe
    <2> HIDE DEF shown
    <2>3. kept \in Seq(Images)
          /\ Range(kept) = {e \in Range(shown) : Range(e.tags) \cap Keeps[Wanted] # {}}
      BY <2>1, OnlyKeeps DEF ImageTagFilter
    <2> HIDE DEF kept
    <2>4. LET charts == {e \in Range(kept) : IsChart(e)}
          IN  IF charts = {} THEN d = NoImage ELSE d \in charts /\ \A e \in charts : e.at <= d.at
      BY <2>3, LatestIsNewest
    <2>5. Found(<<SourceVersion(d.tags[1], d)>>, n # Pages(List)) /\ d # NoImage
      BY <1>5, <1>7 DEF kept, shown
    <2> HIDE DEF d
    <2>6. /\ d \in Range(kept) /\ IsChart(d)
          /\ \A e \in Range(kept) : IsChart(e) => e.at <= d.at
      BY <2>4, <2>5
    <2>7. d \in Range(List) /\ Range(d.tags) \cap Keeps[Wanted] # {}
      BY <2>1, <2>3, <2>6
    <2>8. d.tags[1] \in Range(d.tags)
      <3>1. d \in Images
        BY <1>4, <2>7, RangeOf
      <3>2. d.tags \in Seq(Tags) /\ d.tags # <<>>
        BY <2>6, <3>1 DEF Images, IsChart
      <3>3. 1 \in DOMAIN d.tags
        BY <3>2
      <3> QED
        BY <3>3 DEF Range
    <2> DEFINE v == SourceVersion(d.tags[1], d)
    <2>9. v \in SourceVersions /\ Located(List, v) /\ v.digest = d.dig
      <3>1. v \in SourceVersions /\ Located(List, v)
        BY <1>4, <2>6, <2>7, <2>8, VersionLocated
      <3>2. v.digest = d.dig
        BY DEF SourceVersion
      <3> QED
        BY <3>1, <3>2
    <2> HIDE DEF v
    <2>10. <<v>> \in Seq(SourceVersions) /\ Range(<<v>>) = {v}
      BY <2>9 DEF Range
    <2>11. n = Pages(List) => Answered(Wanted, List, <<v>>)
      <3> SUFFICES ASSUME n = Pages(List) PROVE Answered(Wanted, List, <<v>>)
        OBVIOUS
      <3>1. Means(Wanted, List, d)
        BY <1>1, <2>2, <2>3, <2>6, <2>7 DEF Means
      <3> QED
        BY <2>6, <2>7, <2>9, <2>10, <3>1 DEF Answered
    <2>12. \A w \in Range(<<v>>) : Located(List, w)
      BY <2>9, <2>10
    <2>13. Found(<<v>>, n # Pages(List)) /\ (n # Pages(List)) \in BOOLEAN
      BY <2>5 DEF v
    <2> DEFINE vs == <<v>>
    <2> HIDE DEF vs
    <2> QED
      BY <1>1, <2>10, <2>11, <2>12, <2>13, FoundStep
  <1> QED
    BY <1>6, <1>7

-----------------------------------------------------------------------------
(* The other steps of the process, and the theorems.                       *)

\* What lies in the working directory.
WorkInv == workdir \in [Repositories -> Charts \cup {None}]

\* Steps of the process that leave the answers alone.
LEMMA AnsweredFrame ==
    ASSUME PInv, QInv, UNCHANGED <<ecr, clock>>, g # None, g.pc \in Asked \ {"lookup"},
           g'.pc \in Asked \ {"lookup", "chart"}, g'.files = g.files, g'.file = g.file,
           g'.packages = g.packages, g'.moved = g.moved, g'.lost = g.lost
    PROVE  QInv'
  <1>1. Input' = Input
    BY DEF Input
  <1>2. RegistryInv' /\ PackagesInv'
    BY DEF QInv, RegistryInv, PackagesInv
  <1>3. RequestInv'
    BY <1>1 DEF QInv, RequestInv, Intact, Asked
  <1>4. LookupInv'
    BY DEF LookupInv, Asked
  <1>5. ChartInv'
    BY <1>1 DEF QInv, ChartInv, Asked
  <1> QED
    BY <1>2, <1>3, <1>4, <1>5 DEF QInv

\* Steps that end the process, or that it has no part in.
LEMMA NoProcess ==
    ASSUME QInv, UNCHANGED <<ecr, clock>>, g' = None \/ g' = g PROVE QInv'
  <1>1. CASE g' = None
    BY <1>1 DEF QInv, RegistryInv, PackagesInv, RequestInv, LookupInv, ChartInv
  <1>2. CASE g' = g
    BY <1>2 DEF QInv, RegistryInv, PackagesInv, RequestInv, LookupInv, ChartInv, Input, Project,
                List, Intact
  <1> QED
    BY <1>1, <1>2

\* A new process has looked nothing up.
LEMMA StartStep == ASSUME QInv, NEW files \in Invocations, Start(files) PROVE QInv'
  <1>1. /\ g' = [pc |-> "input", files |-> files, file |-> 1, index |-> 1, tag |-> 1, name |-> None,
                 versions |-> <<>>, packages |-> None, bundle |-> None,
                 annotations |-> [excludes |-> Excludes, sig |-> NoSignature],
                 unpacked |-> {}, moved |-> {}, lost |-> FALSE]
        /\ UNCHANGED <<ecr, clock>>
    BY DEF Start
  <1>2. g'.pc = "input" /\ g'.packages = None /\ g'.lost = FALSE
    BY <1>1
  <1> QED
    BY <1>1, <1>2 DEF QInv, RegistryInv, PackagesInv, RequestInv, LookupInv, ChartInv, Asked

\* It begins with the first request of the first project, and with no package.
LEMMA ReadInputStep == ASSUME PInv, QInv, ReadInput PROVE QInv'
  <1>1. g # None /\ g.pc = "input" /\ UNCHANGED <<ecr, clock>>
    BY DEF ReadInput, Running, NotGenerator
  <1>2. DOMAIN g = ProcessFields
    BY <1>1, InputTyped
  <1>3. /\ g'.pc = (IF Input.projects = <<>> THEN "chart" ELSE "lookup")
        /\ g'.files = g.files /\ g'.file = g.file /\ g'.index = 1 /\ g'.tag = 1
        /\ g'.versions = <<>> /\ g'.packages = None /\ g'.lost = g.lost /\ g'.moved = g.moved
    BY <1>2 DEF ReadInput, ProcessFields
  <1>4. Input' = Input /\ Project' = Input.projects[1]
    BY <1>3 DEF Input, Project
  <1>5. RegistryInv' /\ PackagesInv' /\ RequestInv'
    BY <1>1, <1>3 DEF QInv, RegistryInv, PackagesInv, RequestInv
  <1>6. LookupInv'
    <2> SUFFICES ASSUME Input.projects # <<>> PROVE LookupInv'
      BY <1>3 DEF LookupInv
    <2>1. 1 \in DOMAIN Input.projects
      BY <1>1, InputTyped
    <2>2. <<>> \in Seq(SourceVersions) /\ Range(<<>>) = {}
      BY DEF Range
    <2>3. \A j \in DOMAIN Input.projects[1].wanted : ~(j < 1)
      <3>1. Input.projects[1].wanted \in Seq(Tags)
        BY <1>1, <2>1, InputTyped
      <3> QED
        BY <3>1
    <2> QED
      BY <1>3, <1>4, <2>1, <2>2, <2>3 DEF LookupInv
  <1>7. ChartInv'
    BY <1>1, <1>3, <1>4 DEF QInv, ChartInv, Asked
  <1> QED
    BY <1>5, <1>6, <1>7 DEF QInv

\* Signing and writing leave the packages alone; the next input file is still to be read.
LEMMA SignWriteStep == ASSUME PInv, QInv, NoCharts \/ Sign \/ Write PROVE QInv'
  <1>1. g # None /\ UNCHANGED <<ecr, clock>>
    BY DEF NoCharts, Sign, Write, Running, NotGenerator
  <1>2. DOMAIN g = ProcessFields
    BY <1>1, InputTyped
  <1>3. ASSUME NoCharts PROVE QInv'
    <2>1. g.pc = "chart" /\ g' = [g EXCEPT !.pc = "sign"]
      BY <1>3 DEF NoCharts, Running
    <2>2. /\ g'.pc = "sign" /\ g'.files = g.files /\ g'.file = g.file
          /\ g'.packages = g.packages /\ g'.moved = g.moved /\ g'.lost = g.lost
      BY <1>2, <2>1 DEF ProcessFields
    <2> QED
      BY <1>1, <2>1, <2>2, AnsweredFrame DEF Asked
  <1>4. ASSUME Sign PROVE QInv'
    <2>1. g.pc = "sign" /\ \E b, a : g' = [g EXCEPT !.pc = "write", !.bundle = b, !.annotations = a]
      BY <1>4 DEF Sign, Running
    <2>2. /\ g'.pc = "write" /\ g'.files = g.files /\ g'.file = g.file
          /\ g'.packages = g.packages /\ g'.moved = g.moved /\ g'.lost = g.lost
      BY <1>2, <2>1 DEF ProcessFields
    <2> QED
      BY <1>1, <2>1, <2>2, AnsweredFrame DEF Asked
  <1>5. ASSUME Write PROVE QInv'
    <2> DEFINE more == g.file < Len(g.files)
    <2>1. g.pc = "write" /\ g' = [g EXCEPT !.pc = IF more THEN "input" ELSE "done",
                                           !.file = IF more THEN @ + 1 ELSE @]
      BY <1>5 DEF Write, Running
    <2>2. /\ g'.pc = (IF more THEN "input" ELSE "done") /\ g'.files = g.files
          /\ g'.file = (IF more THEN g.file + 1 ELSE g.file)
          /\ g'.packages = g.packages /\ g'.moved = g.moved /\ g'.lost = g.lost
      BY <1>2, <2>1 DEF ProcessFields
    <2>3. CASE more
      BY <1>1, <2>2, <2>3 DEF QInv, RegistryInv, PackagesInv, RequestInv, LookupInv, ChartInv, Asked
    <2>4. CASE ~more
      BY <1>1, <2>1, <2>2, <2>4, AnsweredFrame DEF Asked
    <2> QED
      BY <2>3, <2>4
  <1> QED
    BY <1>3, <1>4, <1>5

\* What is unpacked is a chart.
LEMMA WorkStep == ASSUME PInv, QInv, WorkInv, [Next]_vars PROVE WorkInv'
  <1>1. CASE workdir' = workdir
    BY <1>1 DEF WorkInv
  <1>2. CASE CleanUp
    BY <1>2 DEF CleanUp, WorkInv
  <1>3. CASE PullChart
    <2>1. g # None /\ g.packages # None /\ g.pc = "chart"
      BY <1>3 DEF PullChart, Running
    <2>2. g.packages \in Seq(BundlePackages) /\ g.index \in DOMAIN g.packages
      BY <2>1 DEF QInv, PackagesInv, ChartInv
    <2>3. Package \in BundlePackages
      BY <2>2, RangeOf DEF Package
    <2>4. Package.repository \in Repositories
      BY <2>3 DEF BundlePackages
    <2>5. PICK i \in DOMAIN ecr[Package.repository] :
              workdir' = [workdir EXCEPT ![Package.repository] =
                             Unpack(ecr[Package.repository][i].dig, Package.repository)]
      BY <1>3 DEF PullChart
    <2>6. ecr[Package.repository][i] \in Images
      BY <2>4, RangeOf DEF QInv, RegistryInv
    <2>7. ecr[Package.repository][i].dig \in Charts
      BY <2>6 DEF Images
    <2>8. Unpack(ecr[Package.repository][i].dig, Package.repository) \in Charts \cup {None}
      BY <2>4, <2>7 DEF Unpack, WorkInv
    <2> QED
      BY <2>5, <2>8 DEF WorkInv
  <1>4. workdir' = workdir \/ CleanUp \/ PullChart
    BY DEF Next, Generator, Cluster, vars, Start, ReadInput, ReadInputFails, LookupExact,
           LookupLatest, LookupOther, LookupFails, PullChartFails, NoCharts, Sign, SignFails, Write,
           WriteFails, GenerateSample, PushBundle, Push, ImportLatest, SaveStatus, UserDelete,
           UserCreate, UserUpdate, Exit
  <1> QED
    BY <1>1, <1>2, <1>3, <1>4

\* The versions with the chart of the first completed, and the package with these.
WithChart(vs, chart) == [vs EXCEPT ![1] = [vs[1] EXCEPT !.chart = chart]]
Completed(p, chart) == [p EXCEPT !.versions = WithChart(p.versions, chart), !.registry = None]

\* It keeps its names and digests.
LEMMA CompletedPackage ==
    ASSUME NEW p \in BundlePackages, p.versions # <<>>, NEW c \in Charts \cup {None}
    PROVE  LET q == Completed(p, c) IN
           /\ q \in BundlePackages /\ q.repository = p.repository /\ q.versions # <<>>
           /\ DOMAIN q.versions = DOMAIN p.versions
           /\ \A i \in DOMAIN p.versions : /\ q.versions[i].name = p.versions[i].name
                                           /\ q.versions[i].digest = p.versions[i].digest
           /\ q.versions[1].chart = c /\ 1 \in DOMAIN p.versions
  <1> DEFINE vs == p.versions
             w == [vs[1] EXCEPT !.chart = c]
             ws == [vs EXCEPT ![1] = w]
             q == Completed(p, c)
  <1>1. vs \in Seq(SourceVersions) /\ p.name \in STRING /\ p.repository \in Repositories
        /\ p.registry \in {"ecr", None}
    BY DEF BundlePackages
  <1>2. 1 \in DOMAIN vs
    BY <1>1
  <1>3. vs[1] \in SourceVersions
    BY <1>1, <1>2, RangeOf
  <1>4. w \in SourceVersions /\ w.name = vs[1].name /\ w.digest = vs[1].digest /\ w.chart = c
    BY <1>3 DEF SourceVersions
  <1>5. q.versions = ws /\ q.registry = None /\ q.name = p.name /\ q.repository = p.repository
        /\ q = [name |-> p.name, registry |-> None, repository |-> p.repository, versions |-> ws]
    <2>1. q = [p EXCEPT !.versions = ws, !.registry = None]
      BY DEF Completed, WithChart
    <2> HIDE DEF q, ws, vs
    <2> QED
      BY <2>1 DEF BundlePackages
  <1> HIDE DEF w
  <1>6. /\ ws \in Seq(SourceVersions) /\ DOMAIN ws = DOMAIN vs /\ ws[1] = w
        /\ \A i \in DOMAIN vs : i # 1 => ws[i] = vs[i]
    <2> HIDE DEF vs
    <2>1. DOMAIN ws = 1..Len(vs) /\ \A i \in 1..Len(vs) : ws[i] \in SourceVersions
      BY <1>1, <1>2, <1>4, RangeOf
    <2>2. ws = [i \in 1..Len(vs) |-> ws[i]]
      BY <2>1
    <2> QED
      BY <1>1, <1>2, <1>4, <2>1, <2>2
  <1> HIDE DEF vs, ws, q
  <1>7. q \in BundlePackages
    BY <1>1, <1>5, <1>6 DEF BundlePackages
  <1>8. ws # <<>>
    BY <1>2, <1>6
  <1>9. \A i \in DOMAIN vs : ws[i].name = vs[i].name /\ ws[i].digest = vs[i].digest
    BY <1>4, <1>6
  <1> QED
    BY <1>2, <1>4, <1>5, <1>6, <1>7, <1>8, <1>9 DEF vs, q

\* The chart that is pulled by the name of the first version is the one the version has the
\* digest of, unless the tag has moved: a tag is on one image.
LEMMA PullChartStep == ASSUME PInv, QInv, WorkInv, PullChart PROVE QInv'
  <1>1. /\ g # None /\ g.pc = "chart" /\ g.packages # None /\ UNCHANGED <<ecr, clock>>
    BY DEF PullChart, Running, NotGenerator
  <1> DEFINE k == g.index
             p == g.packages[k]
             r == p.repository
  <1>2. /\ DOMAIN g = ProcessFields /\ DOMAIN Input.projects = 1..Len(Input.projects)
        /\ Len(Input.projects) \in Nat
    BY <1>1, InputTyped
  <1>3. /\ g.packages \in Seq(BundlePackages) /\ k \in DOMAIN g.packages
        /\ \A i \in DOMAIN g.packages : PackageOK(g.packages[i], ecr, g.moved)
        /\ Len(g.packages) = Len(Input.projects) /\ g.lost \in BOOLEAN
        /\ Input.projects # <<>>
    BY <1>1 DEF QInv, PackagesInv, ChartInv, Asked
  <1>4. p \in BundlePackages /\ PackageOK(p, ecr, g.moved) /\ p.versions # <<>>
    BY <1>3, RangeOf DEF PackageOK
  <1>5. r \in Repositories
    BY <1>4 DEF BundlePackages
  <1>6. CASE g' = None
    BY <1>1, <1>6, NoProcess
  <1>7. CASE g' # None
    <2> DEFINE d(i) == ecr[r][i]
               left(i) == Unpack(d(i).dig, r)
               more == k < Len(g.packages)
    <2>1. PICK i \in DOMAIN ecr[r] :
              /\ p.versions[1].name \in Range(d(i).tags) /\ d(i).dig \notin OtherMedia
              /\ g' = [g EXCEPT !.packages[k].versions[1].chart = left(i),
                                !.packages[k].registry = None,
                                !.unpacked = @ \cup {r},
                                !.index = IF more THEN @ + 1 ELSE 1,
                                !.pc = IF more THEN "chart" ELSE "sign"]
      BY <1>7 DEF PullChart, Package, Pullable, Tag
    <2> DEFINE c == left(i)
               q == Completed(p, c)
               new == [g.packages EXCEPT ![k] = q]
    <2>2. ecr[r] \in Seq(Images) /\ TagsApart(ecr[r])
      BY <1>5 DEF QInv, RegistryInv
    <2>3. d(i) \in Images /\ d(i) \in Range(ecr[r])
      BY <2>2, RangeOf DEF Range
    <2>4. d(i).dig \in Charts
      BY <2>3 DEF Images
    <2>5. c \in Charts \cup {None} /\ (Requires[d(i).dig] # "no" => c = d(i).dig)
      BY <1>5, <2>4 DEF Unpack, WorkInv
    <2>6. /\ q \in BundlePackages /\ q.repository = r /\ q.versions # <<>>
          /\ DOMAIN q.versions = DOMAIN p.versions
          /\ \A j \in DOMAIN p.versions : /\ q.versions[j].name = p.versions[j].name
                                          /\ q.versions[j].digest = p.versions[j].digest
          /\ q.versions[1].chart = c /\ 1 \in DOMAIN p.versions
      BY <1>4, <2>5, CompletedPackage
    <2>7. g' = [g EXCEPT !.packages = new, !.unpacked = @ \cup {r},
                         !.index = IF more THEN @ + 1 ELSE 1,
                         !.pc = IF more THEN "chart" ELSE "sign"]
      <3>1. "packages" \in DOMAIN g
        BY <1>2 DEF ProcessFields
      <3> HIDE DEF left, d
      <3>2. [[g.packages EXCEPT ![k].versions[1].chart = c] EXCEPT ![k].registry = None] = new
        <4> DEFINE a == [p EXCEPT !.versions[1].chart = c]
        <4>1. [g.packages EXCEPT ![k].versions[1].chart = c] = [g.packages EXCEPT ![k] = a]
          OBVIOUS
        <4>2. a = [p EXCEPT !.versions = WithChart(p.versions, c)]
          BY DEF WithChart
        <4>3. q = [a EXCEPT !.registry = None]
          BY <1>4, <4>2 DEF Completed, BundlePackages
        <4> HIDE DEF a, q
        <4> QED
          BY <1>3, <4>1, <4>3
      <3> QED
        BY <1>3, <2>1, <3>1, <3>2
    <2> HIDE DEF q, c, new, left, d
    <2>8. /\ g'.pc = (IF more THEN "chart" ELSE "sign") /\ g'.files = g.files
          /\ g'.file = g.file /\ g'.index = (IF more THEN k + 1 ELSE 1)
          /\ g'.packages = new /\ g'.lost = g.lost /\ g'.moved = g.moved
      BY <1>2, <2>7 DEF ProcessFields
    <2>9. /\ new \in Seq(BundlePackages) /\ DOMAIN new = DOMAIN g.packages
          /\ Len(new) = Len(g.packages) /\ new[k] = q
          /\ \A j \in DOMAIN g.packages : j # k => new[j] = g.packages[j]
      BY <1>3, <2>6 DEF new
    <2>10. PackageOK(q, ecr, g.moved)
      <3>1. \A v \in Range(q.versions) : \E w \in Range(p.versions) :
                v.name = w.name /\ v.digest = w.digest
        BY <2>6 DEF Range
      <3>2. \A v \in Range(q.versions) :
                <<r, v.name>> \notin g.moved => Located(ecr[r], v)
        BY <1>4, <3>1 DEF PackageOK, Located
      <3>3. ASSUME <<r, q.versions[1].name>> \notin g.moved
            PROVE  \/ Requires[q.versions[1].digest] = "no"
                   \/ q.versions[1].chart = q.versions[1].digest
        <4>1. p.versions[1] \in Range(p.versions) /\ q.versions[1].name = p.versions[1].name
              /\ q.versions[1].digest = p.versions[1].digest
          BY <2>6 DEF Range
        <4>2. Located(ecr[r], p.versions[1])
          BY <1>4, <3>3, <4>1 DEF PackageOK
        <4>3. PICK e \in Range(ecr[r]) : /\ p.versions[1].name \in Range(e.tags)
                                         /\ p.versions[1].digest = e.dig
          BY <4>2 DEF Located
        <4>4. e = d(i)
          BY <2>1, <2>2, <2>3, <4>3 DEF TagsApart
        <4> QED
          BY <2>5, <2>6, <4>1, <4>3, <4>4
      <3> QED
        BY <2>6, <3>2, <3>3 DEF PackageOK
    <2>11. Input' = Input
      BY <2>8 DEF Input
    <2>12. Intact' => Intact
      BY <2>8 DEF Intact
    <2>13. RegistryInv'
      BY <1>1 DEF QInv, RegistryInv
    <2>14. PackagesInv'
      BY <1>1, <1>3, <2>8, <2>9, <2>10 DEF PackagesInv
    <2>15. RequestInv'
      <3>1. \A j \in DOMAIN g.packages :
               /\ g.packages[j].repository = Input.projects[j].repository
               /\ Intact => \A m \in DOMAIN Input.projects[j].wanted :
                     Answered(Input.projects[j].wanted[m], ecr[Input.projects[j].repository],
                              g.packages[j].versions)
        BY <1>1 DEF QInv, RequestInv, Asked
      <3>2. ASSUME NEW t, NEW list, Answered(t, list, p.versions)
            PROVE  Answered(t, list, q.versions)
        <4>1. \A v \in Range(p.versions) : \E w \in Range(q.versions) : w.digest = v.digest
          BY <2>6 DEF Range
        <4> DEFINE meant == {e \in Range(list) : IsChart(e) /\ Means(t, list, e)}
        <4>2. \/ Kind[t] = "other" \/ meant = {}
              \/ \E e \in meant, v \in Range(p.versions) : v.digest = e.dig
          BY <3>2 DEF Answered
        <4> HIDE DEF meant
        <4>3. \/ Kind[t] = "other" \/ meant = {}
              \/ \E e \in meant, v \in Range(q.versions) : v.digest = e.dig
          BY <4>1, <4>2
        <4> QED
          BY <4>3 DEF Answered, meant
      <3>3. ASSUME NEW j \in DOMAIN new
            PROVE  /\ new[j].repository = Input.projects[j].repository
                   /\ Intact => \A m \in DOMAIN Input.projects[j].wanted :
                         Answered(Input.projects[j].wanted[m], ecr[Input.projects[j].repository],
                                  new[j].versions)
        <4>1. CASE j = k
          BY <1>3, <2>6, <2>9, <3>1, <3>2, <4>1
        <4>2. CASE j # k
          BY <2>9, <3>1, <4>2
        <4> QED
          BY <4>1, <4>2
      <3>4. Len(new) <= Len(Input.projects)
        BY <1>2, <1>3, <2>9
      <3> QED
        BY <1>1, <2>8, <2>11, <2>12, <3>3, <3>4 DEF RequestInv
    <2>16. LookupInv'
      BY <2>8 DEF LookupInv
    <2>17. ChartInv'
      <3>1. new # None
        BY <2>9, NothingAssumption
      <3>2. more => k + 1 \in DOMAIN new
        BY <1>3, <2>9
      <3> QED
        BY <1>3, <2>8, <2>9, <2>11, <3>1, <3>2 DEF ChartInv, Asked
    <2> QED
      BY <2>13, <2>14, <2>15, <2>16, <2>17 DEF QInv
  <1> QED
    BY <1>6, <1>7

\* The steps together.
LEMMA LookupInvariant == Spec => [](QInv /\ WorkInv)
  <1>1. Init => QInv /\ WorkInv
    BY StockAssumption DEF Init, QInv, RegistryInv, PackagesInv, RequestInv, LookupInv, ChartInv,
       WorkInv
  <1>2. PInv /\ QInv /\ WorkInv /\ [Next]_vars => (QInv /\ WorkInv)'
    <2> SUFFICES ASSUME PInv, QInv, WorkInv, [Next]_vars PROVE QInv'
      BY WorkStep
    <2>1. CASE UNCHANGED vars
      BY <2>1, NoProcess DEF vars
    <2>2. CASE \/ ReadInputFails \/ LookupFails \/ PullChartFails \/ SignFails \/ WriteFails
               \/ GenerateSample \/ PushBundle \/ Cluster
      <3>1. UNCHANGED <<ecr, clock>> /\ (g' = None \/ g' = g)
        BY <2>2 DEF ReadInputFails, LookupFails, PullChartFails, SignFails, WriteFails,
           GenerateSample, PushBundle, Cluster, Exit, NotGenerator, ImportLatest, SaveStatus,
           UserDelete, UserCreate, UserUpdate
      <3> QED
        BY <3>1, NoProcess
    <2> QED
      BY <2>1, <2>2, StartStep, ReadInputStep, LookupExactStep, LookupLatestStep, LookupOtherStep,
         PullChartStep, SignWriteStep, PushStep DEF Next, Generator
  <1> QED
    BY <1>1, <1>2, PublicationInvariant, PTL DEF Spec

\* The images and the schema that the generator records for a version are those of the chart
\* with the digest of that version (PullHelmChart, Unpack), for every registry, unless the tag
\* moved while the process ran or the chart has no requires.yaml.
THEOREM ChartsMatch == Spec => []ChartMatchesDigest
  <1>1. QInv => ChartMatchesDigest
    BY DEF QInv, PackagesInv, PackageOK, ChartMatchesDigest
  <1> QED
    BY <1>1, LookupInvariant, PTL

\* A bundle answers every request of its input file: it has a version of a chart the request
\* means, the newest one for a request of the latest (getLatestImageSha, removeDuplicates),
\* for every registry and every order of its answers.
THEOREM RequestsAnswered == Spec => []AsRequested
  <1>1. PInv /\ QInv => AsRequested
    <2> SUFFICES ASSUME PInv, QInv, g # None, g.pc \in {"chart", "sign", "write", "done"},
                        g.moved = {}, ~g.lost, NEW i \in DOMAIN Input.projects,
                        NEW j \in DOMAIN Input.projects[i].wanted
                 PROVE  Answered(Input.projects[i].wanted[j], ecr[Input.projects[i].repository],
                                 g.packages[i].versions)
      BY DEF AsRequested
    <2>1. Input.projects # <<>>
      BY InputTyped
    <2>2. g.packages # None /\ Len(g.packages) = Len(Input.projects)
      BY <2>1 DEF QInv, ChartInv, Asked
    <2>3. i \in DOMAIN g.packages
      BY <2>2, InputTyped DEF QInv, PackagesInv
    <2> QED
      BY <2>2, <2>3 DEF QInv, RequestInv, Asked, Intact
  <1> QED
    BY <1>1, LookupInvariant, PublicationInvariant, PTL
=============================================================================
