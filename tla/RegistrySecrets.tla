---------------------------- MODULE RegistrySecrets ----------------------------
(***************************************************************************)
(* Who may pull images: the token refresher (ecrtokenrefresher/), which    *)
(* gives the package namespaces of all clusters their pull secrets, and    *)
(* the two parts of the controller that edit the same secret               *)
(* registry-mirror-cred of namespace eksa-packages as the refresher: the   *)
(* certificate injector (pkg/registry/certinjector.go) and the ECR         *)
(* credential injector (pkg/registry/ecr_cred_injector.go).                *)
(*                                                                         *)
(* The three read the secret, change their copy and write it back; the API *)
(* server refuses a copy that is not the latest version (fresh).  What     *)
(* they write was read still earlier, from the secrets                     *)
(* registry-mirror-secret of the clusters, which users change.             *)
(***************************************************************************)
EXTENDS Naturals, FiniteSets

CONSTANTS
    Clusters, Management,
    Namespaces, Own,       \* of packages; Own is eksa-packages itself
    Listed,                \* Listed[c]: the keys of the cluster's ns-secret-map
    Logins, Certificates,  \* of registry mirrors
    Mirrors,               \* Mirrors[c]: the secrets users give cluster c
    AwsActive,             \* the refresher has AWS credentials
    Custom,                \* clusters whose PBC names a registry of its own
    Jobs,                  \* refresher Jobs that run at the same time
    None, MaxEdits, MaxFaults

\* Secret registry-mirror-secret of a cluster.
MirrorSecrets == [login : Logins, ca : Certificates \cup {None}, insecure : BOOLEAN]
\* Secret registry-mirror-cred of eksa-packages: .dockerconfigjson, config.json, and for
\* each cluster <name>_ca.crt and <name>_insecure.  Both JSON files hold one login.
CredSecrets == [docker : Logins, config : Logins \cup {"ecr", None},
                ca : [Clusters -> Certificates \cup {None}], insecure : SUBSET Clusters]
JobStates == [pc : {"init", "aws", "mirror", "read", "write"}, clients : SUBSET Clusters,
              todo : SUBSET Clusters, creds : [Clusters -> MirrorSecrets \cup {None}],
              last : Clusters]
CertStates == [c : Clusters, ca : Certificates, copy : CredSecrets \cup {None}]
Writers == Jobs \cup {"certs", "ecr"}

ASSUME ClustersAssumption ==
    /\ Management \in Clusters /\ Own \in Namespaces /\ Custom \subseteq Clusters
    /\ Listed \in [Clusters -> SUBSET Namespaces] /\ AwsActive \in BOOLEAN
    /\ Mirrors \in [Clusters -> SUBSET MirrorSecrets] /\ Mirrors[Management] # {}
ASSUME NothingAssumption ==
    /\ None \notin CredSecrets /\ None \notin JobStates /\ None \notin CertStates
    /\ None \notin MirrorSecrets /\ None \notin Certificates /\ None \notin Logins
    /\ "ecr" \notin Logins /\ {"certs", "ecr"} \cap Jobs = {}
ASSUME LimitsAssumption == MaxEdits \in Nat /\ MaxFaults \in Nat

VARIABLES
    known,      \* clusters with a namespace eksa-packages-<name>
    kubeconfig, \* clusters with a secret <name>-kubeconfig in eksa-system
    mirror,     \* registry-mirror-secret of each cluster, or None
    registry,   \* defaultRegistry of the management cluster's PBC, None without a PBC
    token,      \* namespaces of each cluster that have secret ecr-token
    login,      \* login in secret registry-mirror-cred of the other namespaces
    cred,       \* secret registry-mirror-cred of eksa-packages, or None
    job,        \* the refresher Jobs, None when not running
    certs,      \* UpdateIfNeeded in progress, or None
    ecr,        \* Refresh holds a copy of cred
    fresh,      \* writers whose copy of cred is the latest version, that is cred itself
    edits, faults

world == <<known, kubeconfig, mirror, registry, edits>>
vars == <<known, kubeconfig, mirror, registry, token, login, cred, job, certs, ecr, fresh,
          edits, faults>>

TypeOK ==
    /\ known \subseteq Clusters /\ kubeconfig \subseteq Clusters
    /\ mirror \in [Clusters -> MirrorSecrets \cup {None}] /\ registry \in {"ecr", "other", None}
    /\ token \in [Clusters -> SUBSET Namespaces]
    /\ login \in [Clusters -> [Namespaces -> Logins \cup {None}]]
    /\ cred \in CredSecrets \cup {None} /\ job \in [Jobs -> JobStates \cup {None}]
    /\ certs \in CertStates \cup {None} /\ ecr \in BOOLEAN
    /\ fresh \subseteq Writers /\ edits \in Nat /\ faults \in Nat

\* The management cluster has been installed with its chart, other clusters may have been.
Init ==
    /\ known \in {ks \in SUBSET Clusters : Management \in ks} /\ kubeconfig = known
    /\ mirror \in [Clusters -> MirrorSecrets \cup {None}]
    /\ \A c \in Clusters : IF c \in known THEN mirror[c] \in Mirrors[c] ELSE mirror[c] = None
    /\ registry = None
    /\ token = [c \in Clusters |-> {}] /\ login = [c \in Clusters |-> [ns \in Namespaces |-> None]]
    /\ cred = None /\ job = [j \in Jobs |-> None] /\ certs = None /\ ecr = FALSE /\ fresh = {}
    /\ edits = 0 /\ faults = 0

Fault == faults < MaxFaults /\ faults' = faults + 1
Edit == edits < MaxEdits /\ edits' = edits + 1

-----------------------------------------------------------------------------
(* Users, and the clusters that come and go.                               *)

Untouched == UNCHANGED <<token, login, cred, job, certs, ecr, fresh, faults>>

\* A new workload cluster; its registry-mirror-secret comes with its own chart.
Join(c) ==
    /\ Edit /\ c \notin known /\ known' = known \cup {c} /\ kubeconfig' = kubeconfig \cup {c}
    /\ UNCHANGED <<mirror, registry>> /\ Untouched

\* A workload cluster is deleted; its namespace stays.
Leave(c) ==
    /\ Edit /\ c # Management /\ c \in kubeconfig /\ kubeconfig' = kubeconfig \ {c}
    /\ UNCHANGED <<known, mirror, registry>> /\ Untouched

SetMirror(c, m) ==
    /\ Edit /\ c \in known /\ mirror[c] # m /\ mirror' = [mirror EXCEPT ![c] = m]
    /\ UNCHANGED <<known, kubeconfig, registry>> /\ Untouched

SetRegistry(r) ==
    /\ Edit /\ registry # r /\ registry' = r
    /\ UNCHANGED <<known, kubeconfig, mirror>> /\ Untouched

-----------------------------------------------------------------------------
(* The refresher: main.  It has a client for every cluster of a namespace  *)
(* eksa-packages-<name>, or gives up; it never fails for Kubernetes.       *)

JobOnly(j, r) == job' = [job EXCEPT ![j] = r] /\ UNCHANGED <<certs, ecr>>
At(j, pc) == job[j] # None /\ job[j].pc = pc
Nothing == [c \in Clusters |-> None]

JobStart(j) ==
    /\ job[j] = None /\ known \subseteq kubeconfig
    /\ LET clients == known \cup {Management} IN
       JobOnly(j, [pc |-> "init", clients |-> clients, todo |-> clients, creds |-> Nothing,
                   last |-> Management])
    /\ UNCHANGED <<world, token, login, cred, fresh, faults>>

\* The next phase once all clusters have been seen to.
Proceed(r, c, pc) ==
    IF r.todo = {c} THEN [r EXCEPT !.pc = pc, !.todo = r.clients, !.last = c]
    ELSE [r EXCEPT !.todo = @ \ {c}]

\* RegistryMirrorSecret.Init.
JobFetch(j, c) ==
    /\ At(j, "init") /\ c \in job[j].todo /\ mirror[c] # None
    /\ JobOnly(j, [Proceed(job[j], c, "aws") EXCEPT !.creds[c] = mirror[c]])
    /\ UNCHANGED <<world, token, login, cred, fresh, faults>>

\* Variant: the Job ends there.
JobFetchFailsExits(j, c) ==
    /\ At(j, "init") /\ c \in job[j].todo
    /\ IF mirror[c] = None THEN UNCHANGED faults ELSE Fault
    /\ JobOnly(j, None)
    /\ UNCHANGED <<world, token, login, cred, fresh>>

\* One cluster without the secret, or one failure, is enough for no credentials at all.
JobFetchFails(j, c) ==
    /\ At(j, "init") /\ c \in job[j].todo
    /\ IF mirror[c] = None THEN UNCHANGED faults ELSE Fault
    /\ JobOnly(j, [job[j] EXCEPT !.pc = "aws", !.todo = job[j].clients, !.creds = Nothing])
    /\ UNCHANGED <<world, token, login, cred, fresh>>

\* IsActive of the registry mirror.
MirrorActive(r) == \E c \in Clusters : r.creds[c] # None

\* Namespaces the broadcast to cluster c reaches: all that are listed, less if one of the
\* writes fails.
Reached(c) == {Listed[c]} \cup IF faults < MaxFaults THEN SUBSET Listed[c] ELSE {}
Failures(c, reached) == IF reached = Listed[c] THEN UNCHANGED faults ELSE Fault

\* What follows the AWS broadcast.
AfterAws(r) == IF MirrorActive(r) THEN [r EXCEPT !.pc = "mirror", !.todo = r.clients] ELSE None

\* IsActive: there are AWS credentials, in the environment or from setupIRSA.
TokenActive == AwsActive

\* AwsSecret.BroadcastCredentials: one token for all clusters.
TokenBroadcast(j, c) ==
    /\ At(j, "aws") /\ TokenActive /\ c \in job[j].todo
    /\ \E reached \in Reached(c) :
          token' = [token EXCEPT ![c] = @ \cup reached] /\ Failures(c, reached)
    /\ JobOnly(j, IF job[j].todo = {c} THEN AfterAws(job[j]) ELSE Proceed(job[j], c, "aws"))
    /\ UNCHANGED <<world, login, cred, fresh>>

\* AWS is not configured, or gives no token.
NoToken(j) ==
    /\ At(j, "aws") /\ job[j].todo = job[j].clients
    /\ IF TokenActive THEN Fault ELSE UNCHANGED faults
    /\ JobOnly(j, AfterAws(job[j]))
    /\ UNCHANGED <<world, token, login, cred, fresh>>

\* Variant: everybody gets the login of the management cluster.
BroadcastLoginShared(r, c) == r.creds[Management].login

\* CreateDockerAuthConfig of the cluster's own credentials.
BroadcastLogin(r, c) == r.creds[c].login

\* Variant: eksa-packages gets an empty secret.
WriteDockerEmpty(c, l, reached) ==
    /\ login' = [login EXCEPT ![c] = [ns \in Namespaces |-> IF ns \in reached THEN l ELSE @[ns]]]
    /\ IF c = Management /\ Own \in reached /\ cred = None
       THEN /\ cred' = [docker |-> None, config |-> None, ca |-> Nothing, insecure |-> {}]
            /\ fresh' = {}
       ELSE UNCHANGED <<cred, fresh>>

\* BroadcastDockerAuthConfig writes the login alone, also into eksa-packages.
WriteDocker(c, l, reached) ==
    /\ login' = [login EXCEPT ![c] = [ns \in Namespaces |-> IF ns \in reached THEN l ELSE @[ns]]]
    /\ IF c = Management /\ Own \in reached
       THEN /\ cred' = IF cred # None THEN [cred EXCEPT !.docker = l]
                       ELSE [docker |-> l, config |-> None, ca |-> Nothing, insecure |-> {}]
            /\ fresh' = {}
       ELSE UNCHANGED <<cred, fresh>>

MirrorBroadcast(j, c) ==
    /\ At(j, "mirror") /\ c \in job[j].todo
    /\ \E reached \in Reached(c) :
          WriteDocker(c, BroadcastLogin(job[j], c), reached) /\ Failures(c, reached)
    /\ JobOnly(j, Proceed(job[j], c, "read"))
    /\ UNCHANGED <<world, token>>

JobRead(j) ==
    /\ At(j, "read") /\ JobOnly(j, [job[j] EXCEPT !.pc = "write"])
    /\ fresh' = fresh \cup {j}
    /\ UNCHANGED <<world, token, login, cred, faults>>

\* The keys of the loop over the clusters; config.json is that of the last one.
Data(r) ==
    [docker |-> r.creds[Management].login, config |-> r.creds[r.last].login,
     ca |-> [c \in Clusters |-> IF r.creds[c] = None THEN None ELSE r.creds[c].ca],
     insecure |-> {c \in Clusters : r.creds[c] # None /\ r.creds[c].insecure}]

\* Variant: only the keys that are missing are set.
UpdateSecretKeepsOld(old, new) ==
    IF old = None THEN new
    ELSE [old EXCEPT !.ca = [c \in Clusters |-> IF @[c] = None THEN new.ca[c] ELSE @[c]],
                     !.insecure = @ \cup new.insecure]

\* UpdateSecret sets the keys of new and keeps the others.
UpdateSecret(old, new) ==
    IF old = None THEN new
    ELSE [new EXCEPT !.ca = [c \in Clusters |-> IF @[c] = None THEN old.ca[c] ELSE @[c]],
                     !.insecure = @ \cup old.insecure]

JobWrite(j) ==
    /\ At(j, "write") /\ j \in fresh
    /\ cred' = UpdateSecret(cred, Data(job[j])) /\ fresh' = {}
    /\ JobOnly(j, None)
    /\ UNCHANGED <<world, token, login, faults>>

\* Not the latest version, created by somebody else meanwhile, or another failure.
JobWriteFails(j) ==
    /\ At(j, "write")
    /\ IF j \in fresh THEN Fault ELSE UNCHANGED faults
    /\ JobOnly(j, None)
    /\ UNCHANGED <<world, token, login, cred, fresh>>

\* The pod is killed; the CronJob starts another one.
JobDies(j) ==
    /\ job[j] # None /\ Fault /\ JobOnly(j, None)
    /\ UNCHANGED <<world, token, login, cred, fresh>>

-----------------------------------------------------------------------------
(* CertInjector.UpdateIfNeeded, which every reconciliation of a PBC with a *)
(* registry of its own begins with.                                        *)

CertsOnly(r) == certs' = r /\ UNCHANGED <<job, ecr>>

FetchCertContent(c) == IF mirror[c] = None THEN None ELSE mirror[c].ca

CertFetch(c) ==
    /\ certs = None /\ c \in Custom \cap known /\ FetchCertContent(c) # None
    /\ CertsOnly([c |-> c, ca |-> FetchCertContent(c), copy |-> None])
    /\ UNCHANGED <<world, token, login, cred, fresh, faults>>

CertMissing ==
    /\ certs # None /\ certs.copy = None /\ cred # None /\ cred.ca[certs.c] = None
    /\ CertsOnly([certs EXCEPT !.copy = cred]) /\ fresh' = fresh \cup {"certs"}
    /\ UNCHANGED <<world, token, login, cred, faults>>

\* The secret does not exist, or has a certificate of the cluster.
CertPresent ==
    /\ certs # None /\ certs.copy = None /\ (cred # None => cred.ca[certs.c] # None)
    /\ CertsOnly(None)
    /\ UNCHANGED <<world, token, login, cred, fresh, faults>>

\* Variant: written whatever version it was made from.
CertUpdateUnconditionally ==
    /\ certs # None /\ certs.copy # None
    /\ cred' = [certs.copy EXCEPT !.ca[certs.c] = certs.ca] /\ fresh' = {}
    /\ CertsOnly(None)
    /\ UNCHANGED <<world, token, login, faults>>

CertUpdate ==
    /\ certs # None /\ certs.copy # None /\ "certs" \in fresh
    /\ cred' = [certs.copy EXCEPT !.ca[certs.c] = certs.ca] /\ fresh' = {}
    /\ CertsOnly(None)
    /\ UNCHANGED <<world, token, login, faults>>

CertUpdateFails ==
    /\ certs # None /\ certs.copy # None
    /\ IF "certs" \in fresh THEN Fault ELSE UNCHANGED faults
    /\ CertsOnly(None)
    /\ UNCHANGED <<world, token, login, cred, fresh>>

-----------------------------------------------------------------------------
(* ECRCredInjector.Refresh, every 30 seconds until it succeeds and every   *)
(* hour afterwards.  Without AWS credentials or the secret it has no       *)
(* effect.                                                                 *)

EcrOnly(holds) == ecr' = holds /\ UNCHANGED <<job, certs>>

\* GetECRClient and GetCredential: from a file config or from separate keys, of which a
\* missing one is only logged and makes the request for the login fail.
GetCredential == AwsActive

\* Variant: not if there is a login already.
EcrReadOnce ==
    /\ ~ecr /\ GetCredential /\ cred # None /\ cred.config = None
    /\ EcrOnly(TRUE) /\ fresh' = fresh \cup {"ecr"}
    /\ UNCHANGED <<world, token, login, cred, faults>>

EcrRead ==
    /\ ~ecr /\ GetCredential /\ cred # None
    /\ EcrOnly(TRUE) /\ fresh' = fresh \cup {"ecr"}
    /\ UNCHANGED <<world, token, login, cred, faults>>

\* InjectCredential.  It decodes an empty buffer into the old config.json, and so begins
\* with an empty one.
EcrInject ==
    /\ ecr /\ registry = "ecr" /\ "ecr" \in fresh
    /\ cred' = [cred EXCEPT !.config = "ecr"] /\ fresh' = {}
    /\ EcrOnly(FALSE)
    /\ UNCHANGED <<world, token, login, faults>>

\* No PBC, a registry that is not ECR, or an update that is refused or fails.
EcrSkip ==
    /\ ecr
    /\ IF registry = "ecr" /\ "ecr" \in fresh THEN Fault ELSE UNCHANGED faults
    /\ EcrOnly(FALSE)
    /\ UNCHANGED <<world, token, login, cred, fresh>>

-----------------------------------------------------------------------------
Environment ==
    \/ \E c \in Clusters : Join(c) \/ Leave(c) \/ \E m \in Mirrors[c] : SetMirror(c, m)
    \/ \E r \in {"ecr", "other"} : SetRegistry(r)

\* The steps of a Job that has been started.
JobStep(j) ==
    \/ \E c \in Clusters : JobFetch(j, c) \/ JobFetchFails(j, c)
    \/ \E c \in Clusters : TokenBroadcast(j, c) \/ MirrorBroadcast(j, c)
    \/ NoToken(j) \/ JobRead(j) \/ JobWrite(j) \/ JobWriteFails(j) \/ JobDies(j)

CertStep == CertMissing \/ CertPresent \/ CertUpdate \/ CertUpdateFails
EcrStep == EcrInject \/ EcrSkip

Next ==
    \/ Environment \/ CertStep \/ EcrRead \/ EcrStep
    \/ \E j \in Jobs : JobStart(j) \/ JobStep(j)
    \/ \E c \in Clusters : CertFetch(c)

Spec == Init /\ [][Next]_vars

\* The CronJob starts Jobs again and again, which go on and end; the controller goes on
\* with what it began and looks again every hour.  A refresh of the ECR credential takes
\* seconds: not every one of them is overtaken by a Job.
Fairness ==
    /\ \A j \in Jobs : WF_vars(JobStart(j)) /\ WF_vars(JobStep(j)) /\ SF_vars(JobWrite(j))
    /\ WF_vars(CertStep) /\ WF_vars(EcrRead) /\ WF_vars(EcrStep) /\ SF_vars(EcrInject)
    /\ \A c \in Clusters : WF_vars(CertFetch(c))

FairSpec == Spec /\ Fairness

-----------------------------------------------------------------------------
(* Properties.                                                             *)

\* No writer of registry-mirror-cred undoes another: a certificate that the controller
\* has found or the refresher has copied stays there, whoever writes next.
CertificatesKept ==
    [][cred # None =>
          cred' # None /\ \A c \in Clusters : cred.ca[c] # None => cred'.ca[c] # None]_vars

\* The pull secrets of clusters are kept apart: that of a namespace is a login of its own
\* cluster's mirror, that of eksa-packages (.dockerconfigjson) is the management cluster's,
\* and the certificate under a cluster's name is one of that cluster.  config.json, with
\* which the controller itself pulls bundles, is not kept apart: it has a login of some
\* cluster the refresher knows, whichever its loop ended with, or that of ECR.
OwnCredentials ==
    /\ \A c \in Clusters, ns \in Namespaces :
          login[c][ns] # None => \E m \in Mirrors[c] : m.login = login[c][ns]
    /\ cred # None => \E m \in Mirrors[Management] : m.login = cred.docker
    /\ cred # None => \A c \in Clusters :
          cred.ca[c] # None => \E m \in Mirrors[c] : m.ca = cred.ca[c]
    /\ cred # None /\ cred.config \notin {"ecr", None} =>
          \E c \in known : \E m \in Mirrors[c] : m.login = cred.config

\* The clusters can all be reached and have told the refresher about their mirrors.
Complete == known \subseteq kubeconfig /\ \A c \in known : mirror[c] # None

\* What the refresher works towards.
Settled(c) ==
    /\ \A ns \in Listed[c] : login[c][ns] = mirror[c].login
    /\ cred # None /\ (mirror[c].ca # None => cred.ca[c] = mirror[c].ca)

\* Once users leave it alone every namespace that is listed has the current credentials,
\* and the controller has the current certificates of all clusters.
Converges == <>[](Complete => \A c \in known : Settled(c))

\* Pull tokens reach every listed namespace, whatever is missing for the mirrors.
TokensArrive ==
    <>[](AwsActive /\ known \subseteq kubeconfig => \A c \in known : Listed[c] \subseteq token[c])

\* However often the refresher replaces config.json, the controller's login to ECR comes
\* back.
EcrReturns ==
    []<>(registry = "ecr" /\ AwsActive /\ cred # None => cred.config = "ecr")
=============================================================================
