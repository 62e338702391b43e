---------------------------- MODULE BundleSignature ----------------------------
(***************************************************************************)
(* What of a PackageBundle is hashed and signed (pkg/signature/manifest.go,*)
(* the same code in the generator and in the webhook), and what the        *)
(* webhook accepts (pkg/webhook/packagebundle_webhook.go).  A hash is what *)
(* is hashed, a signature a key with a hash.                               *)
(***************************************************************************)
EXTENDS Naturals, Sequences

CONSTANTS
    TrustedKey,  \* the webhook's public key, by default or from EKSA_PUBLIC_KEY
    None         \* nothing: an absent annotation or field, null

\* What the excludes annotation may select below .spec.packages[]; what the
\* generator's does.
Selectors == {"registry", "repository", "versions"}
Excludes == {"registry", "repository"}

\* None stands for an absent value and is no value of its own.
ASSUME NoneAssumption == None # Excludes /\ None # TrustedKey

\* The annotation is missing.
NoSignature == [key |-> None, digest |-> None]

\* The fields of a bundle the query leaves to GetDigest: of the annotations only the
\* excludes, neither the signature nor those of other domains.
Fields == {"name", "namespace", "generated", "status", "minVersion", "excludes", "packages"}

\* Variant: the status is hashed.
AlwaysExcludedNotStatus == {"generated", "minVersion"}

\* "generated" stands for creationTimestamp, generation, managedFields, uid and
\* resourceVersion.
AlwaysExcluded == {"status", "generated", "minVersion"}

\* GetMetadataInformation: the selectors of a bundle.
Selected(b) == IF b.excludes = None THEN {} ELSE b.excludes

PackageFields == {"name", "registry", "repository", "versions"}

\* Variant: the selectors cut off the source with its versions.
StripSource(p, selectors) == [f \in PackageFields |-> IF f = "name" THEN p[f] ELSE None]

\* del() on one package; an empty registry is not in the JSON in the first place.
Strip(p, selectors) == [f \in PackageFields |-> IF f \in selectors THEN None ELSE p[f]]

\* The query fails on packages that are null.  GetDigest hashes its error like a
\* result, the same one for all such bundles.
GetDigest(b) ==
    LET ok == b.packages # None \/ Selected(b) = {} IN
    [ok |-> ok,
     body |-> IF ~ok THEN <<>>
              ELSE [f \in Fields \ AlwaysExcluded |->
                       IF f = "packages" /\ b.packages # None
                       THEN [i \in DOMAIN b.packages |-> Strip(b.packages[i], Selected(b))]
                       ELSE b[f]]]

ValidateSignature(b) ==
    b.sig # NoSignature /\ b.sig.key = TrustedKey /\ b.sig.digest = GetDigest(b)

\* getMajorMinorBuild succeeds on the names the generator makes.
IsValidVersion(name) == name.kube # None

isPackageBundleValid(b) == IsValidVersion(b.name) /\ ValidateSignature(b)
=============================================================================
