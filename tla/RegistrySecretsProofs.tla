------------------------- MODULE RegistrySecretsProofs -------------------------
(***************************************************************************)
(* Proofs about RegistrySecrets, for every set of clusters, namespaces,    *)
(* mirrors and Jobs and every bound: the pull secrets of clusters are kept *)
(* apart, and no writer of registry-mirror-cred undoes another.            *)
(***************************************************************************)
EXTENDS RegistrySecrets, TLAPS

-----------------------------------------------------------------------------
(* The inductive invariant.                                                *)

\* A registry-mirror-secret is one of those its cluster is given; the management cluster is
\* always there.
MirrorsOwn == Management \in known /\ \A c \in Clusters : mirror[c] # None => mirror[c] \in Mirrors[c]

\* What a Job has fetched.
FetchedOwn(r) == \A c \in Clusters : r.creds[c] # None => r.creds[c] \in Mirrors[c]
FetchedAll(r, cs) == \A c \in cs : r.creds[c] # None

\* A Job has the credentials of all its clusters or, after a failure, of none, and in this
\* case it never reaches the broadcast.
JobInv(r) ==
    /\ Management \in r.clients /\ r.todo \subseteq r.clients /\ r.last \in r.clients
    /\ r.clients \subseteq known /\ FetchedOwn(r)
    /\ r.pc = "init" => FetchedAll(r, r.clients \ r.todo)
    /\ r.pc = "aws" => r.creds = Nothing \/ FetchedAll(r, r.clients)
    /\ r.pc \in {"mirror", "read", "write"} => FetchedAll(r, r.clients)

JobsInv == \A j \in Jobs : job[j] # None => JobInv(job[j])

\* A copy of the certificate injector that is fresh is the secret itself.
CertInv ==
    certs # None =>
        /\ \E m \in Mirrors[certs.c] : m.ca = certs.ca
        /\ certs.copy # None /\ "certs" \in fresh => certs.copy = cred

\* The ECR injector has seen a secret, and nobody deletes it.
EcrInv == ecr => cred # None

RInv == MirrorsOwn /\ JobsInv /\ CertInv /\ EcrInv /\ OwnCredentials
Inv == TypeOK /\ RInv

-----------------------------------------------------------------------------
(* The records of the Jobs.                                                *)

LEMMA NothingType == Nothing \in [Clusters -> MirrorSecrets \cup {None}]
  BY DEF Nothing

\* Going through the clusters.
LEMMA ProceedFacts ==
    ASSUME NEW r \in JobStates, NEW c \in r.todo, NEW pc \in {"aws", "mirror", "read"}
    PROVE  /\ Proceed(r, c, pc) \in JobStates
           /\ Proceed(r, c, pc).clients = r.clients /\ Proceed(r, c, pc).creds = r.creds
           /\ IF r.todo = {c}
              THEN /\ Proceed(r, c, pc).pc = pc /\ Proceed(r, c, pc).todo = r.clients
                   /\ Proceed(r, c, pc).last = c
              ELSE /\ Proceed(r, c, pc).pc = r.pc /\ Proceed(r, c, pc).todo = r.todo \ {c}
                   /\ Proceed(r, c, pc).last = r.last
  BY DEF Proceed, JobStates

\* The phases of a Job that keep what it has fetched.
LEMMA PhaseFacts ==
    ASSUME NEW r \in JobStates, JobInv(r), r.pc # "init", NEW s \in JobStates,
           s.clients = r.clients, s.creds = r.creds, s.todo \subseteq r.clients,
           s.last \in r.clients, s.pc # "init",
           s.pc \in {"mirror", "read", "write"} => FetchedAll(r, r.clients)
    PROVE  JobInv(s)
  BY DEF JobInv, FetchedOwn, FetchedAll, JobStates

\* One Job changes.
LEMMA JobChange ==
    ASSUME Inv, NEW j \in Jobs, NEW r \in JobStates \cup {None}, r # None => JobInv(r),
           job' = [job EXCEPT ![j] = r], UNCHANGED known
    PROVE  job' \in [Jobs -> JobStates \cup {None}] /\ JobsInv'
  BY DEF Inv, TypeOK, RInv, JobsInv, JobInv, FetchedOwn, FetchedAll

\* ... and nothing else but the tokens and, perhaps, who has a fresh copy.
LEMMA JobAlone ==
    ASSUME Inv, NEW j \in Jobs, NEW r \in JobStates \cup {None}, r # None => JobInv(r),
           JobOnly(j, r), UNCHANGED <<world, login, cred>>,
           token' \in [Clusters -> SUBSET Namespaces], faults' \in Nat,
           fresh' \in {fresh, fresh \cup {j}}
    PROVE  Inv'
  <1>1. job' = [job EXCEPT ![j] = r] /\ UNCHANGED <<certs, ecr>>
    BY DEF JobOnly
  <1>2. job' \in [Jobs -> JobStates \cup {None}] /\ JobsInv'
    BY <1>1, JobChange DEF world
  <1>3. "certs" \in fresh' <=> "certs" \in fresh
    BY NothingAssumption
  <1>4. fresh' \subseteq Writers
    BY DEF Inv, TypeOK, Writers
  <1>5. TypeOK'
    BY <1>1, <1>2, <1>4 DEF Inv, TypeOK, world
  <1>6. MirrorsOwn' /\ CertInv' /\ EcrInv' /\ OwnCredentials'
    BY <1>1, <1>3 DEF Inv, RInv, MirrorsOwn, CertInv, EcrInv, OwnCredentials, world
  <1> QED
    BY <1>2, <1>5, <1>6 DEF Inv, RInv

\* A running Job.
LEMMA Running ==
    ASSUME Inv, NEW j \in Jobs, job[j] # None
    PROVE  job[j] \in JobStates /\ JobInv(job[j])
  BY DEF Inv, TypeOK, RInv, JobsInv

LEMMA FaultType == ASSUME Inv, Fault \/ UNCHANGED faults PROVE faults' \in Nat
  <1>1. faults \in Nat
    BY DEF Inv, TypeOK
  <1> QED
    BY <1>1 DEF Fault

-----------------------------------------------------------------------------
(* The steps of a Job.                                                     *)

LEMMA StartStep == ASSUME Inv, NEW j \in Jobs, JobStart(j) PROVE Inv'
  <1> DEFINE cs == known \cup {Management}
             r == [pc |-> "init", clients |-> cs, todo |-> cs, creds |-> Nothing, last |-> Management]
  <1>1. cs \subseteq Clusters /\ Management \in cs /\ cs \subseteq known
    BY ClustersAssumption DEF Inv, TypeOK, RInv, MirrorsOwn
  <1>2. r \in JobStates
    BY <1>1, NothingType DEF JobStates
  <1>3. JobInv(r)
    BY <1>1 DEF JobInv, FetchedOwn, FetchedAll, Nothing
  <1>4. JobOnly(j, r)
    BY DEF JobStart
  <1> HIDE DEF r
  <1> QED
    BY <1>2, <1>3, <1>4, JobAlone DEF JobStart, Inv, TypeOK

\* Reading the clusters' secrets: all of them, or none.
LEMMA FetchStep ==
    ASSUME Inv, NEW j \in Jobs, NEW c \in Clusters, JobFetch(j, c) \/ JobFetchFails(j, c)
    PROVE  Inv'
  <1> DEFINE r == job[j]
  <1>1. r \in JobStates /\ JobInv(r) /\ r.pc = "init" /\ c \in r.todo
    BY Running DEF JobFetch, JobFetchFails, At
  <1>2. CASE JobFetch(j, c)
    <2> DEFINE p == Proceed(r, c, "aws")
               s == [p EXCEPT !.creds[c] = mirror[c]]
    <2>1. mirror[c] \in MirrorSecrets /\ mirror[c] \in Mirrors[c]
      BY <1>2 DEF JobFetch, Inv, TypeOK, RInv, MirrorsOwn
    <2>2. /\ p \in JobStates /\ p.clients = r.clients /\ p.creds = r.creds
          /\ IF r.todo = {c} THEN p.pc = "aws" /\ p.todo = r.clients /\ p.last = c
             ELSE p.pc = "init" /\ p.todo = r.todo \ {c} /\ p.last = r.last
      BY <1>1, ProceedFacts
    <2> HIDE DEF p
    <2>3. s \in JobStates
      BY <2>1, <2>2 DEF JobStates
    <2>4. /\ s.pc = p.pc /\ s.clients = r.clients /\ s.todo = p.todo /\ s.last = p.last
          /\ s.creds = [r.creds EXCEPT ![c] = mirror[c]]
      BY <2>2 DEF JobStates
    <2>5. r.creds \in [Clusters -> MirrorSecrets \cup {None}] /\ r.clients \subseteq Clusters
      BY <1>1 DEF JobStates
    <2>6. \A d \in Clusters : s.creds[d] = IF d = c THEN mirror[c] ELSE r.creds[d]
      BY <2>4, <2>5
    <2>7. mirror[c] # None
      BY <1>2 DEF JobFetch
    <2> HIDE DEF s, r
    <2>8. FetchedOwn(s)
      BY <1>1, <2>1, <2>6 DEF FetchedOwn, JobInv
    <2>9. ASSUME NEW d \in Clusters, d \in r.clients \ r.todo \/ d = c PROVE s.creds[d] # None
      BY <1>1, <2>6, <2>7, <2>9 DEF JobInv, FetchedAll
    <2>10. JobInv(s)
      <3>1. CASE r.todo = {c}
        BY <1>1, <2>2, <2>4, <2>5, <2>8, <2>9, <3>1 DEF JobInv, FetchedAll
      <3>2. CASE r.todo # {c}
        BY <1>1, <2>2, <2>4, <2>5, <2>8, <2>9, <3>2 DEF JobInv, FetchedAll
      <3> QED
        BY <3>1, <3>2
    <2>11. JobOnly(j, s)
      BY <1>2 DEF JobFetch, s, p, r
    <2> QED
      BY <1>2, <2>3, <2>10, <2>11, JobAlone DEF JobFetch, Inv, TypeOK
  <1>3. CASE JobFetchFails(j, c)
    <2> DEFINE s == [r EXCEPT !.pc = "aws", !.todo = r.clients, !.creds = Nothing]
    <2>1. s \in JobStates
      BY <1>1, NothingType DEF JobStates
    <2>2. /\ s.pc = "aws" /\ s.clients = r.clients /\ s.todo = r.clients /\ s.last = r.last
          /\ s.creds = Nothing
      BY <1>1 DEF JobStates
    <2>3. JobOnly(j, s)
      BY <1>3 DEF JobFetchFails
    <2> HIDE DEF s
    <2>4. JobInv(s)
      BY <1>1, <2>2 DEF JobInv, FetchedOwn, FetchedAll, Nothing
    <2>5. faults' \in Nat
      BY <1>3, FaultType DEF JobFetchFails
    <2> QED
      BY <1>3, <2>1, <2>3, <2>4, <2>5, JobAlone DEF JobFetchFails, Inv, TypeOK
  <1> QED
    BY <1>2, <1>3

\* Only a Job with the credentials of all its clusters goes on to the mirrors.
LEMMA AfterAwsFacts ==
    ASSUME NEW r \in JobStates, JobInv(r), r.pc = "aws"
    PROVE  AfterAws(r) \in JobStates \cup {None} /\ (AfterAws(r) # None => JobInv(AfterAws(r)))
  <1> DEFINE s == [r EXCEPT !.pc = "mirror", !.todo = r.clients]
  <1>1. CASE ~MirrorActive(r)
    BY <1>1 DEF AfterAws
  <1>2. CASE MirrorActive(r)
    <2>1. FetchedAll(r, r.clients)
      BY <1>2 DEF JobInv, MirrorActive, Nothing
    <2>2. s \in JobStates
      BY DEF JobStates
    <2>3. s.pc = "mirror" /\ s.clients = r.clients /\ s.creds = r.creds /\ s.todo = r.clients /\ s.last = r.last
      BY DEF JobStates
    <2>4. r.last \in r.clients
      BY DEF JobInv
    <2> HIDE DEF s
    <2>5. JobInv(s)
      BY <2>1, <2>2, <2>3, <2>4, PhaseFacts
    <2>6. AfterAws(r) = s
      BY <1>2 DEF AfterAws, s
    <2> QED
      BY <2>2, <2>5, <2>6
  <1> QED
    BY <1>1, <1>2

LEMMA TokenStep ==
    ASSUME Inv, NEW j \in Jobs, NoToken(j) \/ \E c \in Clusters : TokenBroadcast(j, c)
    PROVE  Inv'
  <1> DEFINE r == job[j]
  <1>1. r \in JobStates /\ JobInv(r) /\ r.pc = "aws"
    BY Running DEF NoToken, TokenBroadcast, At
  <1>2. AfterAws(r) \in JobStates \cup {None} /\ (AfterAws(r) # None => JobInv(AfterAws(r)))
    BY <1>1, AfterAwsFacts
  <1>3. token \in [Clusters -> SUBSET Namespaces]
    BY DEF Inv, TypeOK
  <1>4. CASE NoToken(j)
    <2>1. faults' \in Nat
      BY <1>4, FaultType DEF NoToken
    <2>2. JobOnly(j, AfterAws(r)) /\ UNCHANGED <<world, token, login, cred, fresh>>
      BY <1>4 DEF NoToken
    <2> QED
      BY <1>2, <1>3, <2>1, <2>2, JobAlone
  <1>5. ASSUME NEW c \in Clusters, TokenBroadcast(j, c) PROVE Inv'
    <2>1. PICK reached \in Reached(c) :
             token' = [token EXCEPT ![c] = @ \cup reached] /\ Failures(c, reached)
      BY <1>5 DEF TokenBroadcast
    <2>2. reached \subseteq Namespaces
      BY ClustersAssumption DEF Reached
    <2>3. token' \in [Clusters -> SUBSET Namespaces]
      BY <1>3, <2>1, <2>2
    <2>4. faults' \in Nat
      BY <2>1, FaultType DEF Failures
    <2> DEFINE p == Proceed(r, c, "aws")
               s == IF r.todo = {c} THEN AfterAws(r) ELSE p
    <2>5. c \in r.todo /\ JobOnly(j, s) /\ UNCHANGED <<world, login, cred, fresh>>
      BY <1>5 DEF TokenBroadcast
    <2>6. /\ p \in JobStates /\ p.clients = r.clients /\ p.creds = r.creds
          /\ r.todo # {c} => p.pc = "aws" /\ p.todo = r.todo \ {c} /\ p.last = r.last
      BY <1>1, <2>5, ProceedFacts
    <2>7. r.todo \subseteq r.clients /\ r.last \in r.clients
      BY <1>1 DEF JobInv
    <2> HIDE DEF p, r
    <2>8. r.todo # {c} => JobInv(p)
      BY <1>1, <2>6, <2>7, PhaseFacts
    <2>9. s \in JobStates \cup {None} /\ (s # None => JobInv(s))
      BY <1>2, <2>6, <2>8
    <2> QED
      BY <2>3, <2>4, <2>5, <2>9, JobAlone
  <1> QED
    BY <1>4, <1>5

\* A change of registry-mirror-cred outdates all copies.
LEMMA CredChange ==
    ASSUME Inv, JobsInv', job' \in [Jobs -> JobStates \cup {None}],
           cred' \in CredSecrets, fresh' = {}, OwnCredentials',
           login' \in [Clusters -> [Namespaces -> Logins \cup {None}]],
           certs' \in {certs, None}, ecr' \in {ecr, FALSE}, UNCHANGED <<world, token>>, faults' \in Nat
    PROVE  Inv'
  <1>1. TypeOK'
    BY DEF Inv, TypeOK, world
  <1>2. MirrorsOwn' /\ CertInv' /\ EcrInv'
    BY NothingAssumption DEF Inv, RInv, MirrorsOwn, CertInv, EcrInv, world
  <1> QED
    BY <1>1, <1>2 DEF Inv, RInv

\* The login a cluster is sent is its own.
LEMMA LoginFacts ==
    ASSUME NEW r \in JobStates, JobInv(r), r.pc = "mirror", NEW c \in r.todo
    PROVE  BroadcastLogin(r, c) \in Logins /\ \E m \in Mirrors[c] : m.login = BroadcastLogin(r, c)
  <1>1. c \in Clusters
    BY DEF JobStates
  <1>2. \E m \in Mirrors[c] : m = r.creds[c] /\ m \in MirrorSecrets
    BY <1>1, ClustersAssumption DEF JobInv, FetchedOwn, FetchedAll
  <1> QED
    BY <1>2 DEF BroadcastLogin, MirrorSecrets

LEMMA BroadcastStep ==
    ASSUME Inv, NEW j \in Jobs, NEW c \in Clusters, MirrorBroadcast(j, c)
    PROVE  Inv'
  <1> DEFINE r == job[j]
             p == Proceed(r, c, "read")
             l == BroadcastLogin(r, c)
  <1>1. r \in JobStates /\ JobInv(r) /\ r.pc = "mirror" /\ c \in r.todo
    BY Running DEF MirrorBroadcast, At
  <1>2. PICK reached \in Reached(c) : WriteDocker(c, l, reached) /\ Failures(c, reached)
    BY DEF MirrorBroadcast
  <1>3. faults' \in Nat
    BY <1>2, FaultType DEF Failures
  <1>5. l \in Logins /\ \E m \in Mirrors[c] : m.login = l
    BY <1>1, LoginFacts
  <1>6. p \in JobStates /\ JobInv(p)
    <2>1. /\ p \in JobStates /\ p.clients = r.clients /\ p.creds = r.creds
          /\ p.pc \in {"mirror", "read"} /\ p.todo \subseteq r.clients /\ p.last \in r.clients
      BY <1>1, ProceedFacts DEF JobInv
    <2> HIDE DEF p, r
    <2> QED
      BY <1>1, <2>1, PhaseFacts DEF JobInv
  <1>7. job' = [job EXCEPT ![j] = p] /\ UNCHANGED <<certs, ecr, world, token>>
    BY DEF MirrorBroadcast, JobOnly
  <1>8. job' \in [Jobs -> JobStates \cup {None}] /\ JobsInv'
    BY <1>6, <1>7, JobChange DEF world
  <1> HIDE DEF l, p, r
  <1>9. login' = [login EXCEPT ![c] = [ns \in Namespaces |-> IF ns \in reached THEN l ELSE @[ns]]]
    BY <1>2 DEF WriteDocker
  <1>10. login \in [Clusters -> [Namespaces -> Logins \cup {None}]]
    BY DEF Inv, TypeOK
  <1>11. login' \in [Clusters -> [Namespaces -> Logins \cup {None}]]
    BY <1>5, <1>9, <1>10
  <1>12. \A d \in Clusters, ns \in Namespaces :
            login'[d][ns] = login[d][ns] \/ (d = c /\ login'[d][ns] = l)
    BY <1>9, <1>10
  <1>13. \A d \in Clusters, ns \in Namespaces :
            login'[d][ns] # None => \E m \in Mirrors[d] : m.login = login'[d][ns]
    BY <1>5, <1>12 DEF Inv, RInv, OwnCredentials
  <1>14. CASE UNCHANGED <<cred, fresh>>
    <2>1. OwnCredentials'
      BY <1>7, <1>13, <1>14 DEF Inv, RInv, OwnCredentials, world
    <2>2. TypeOK'
      BY <1>3, <1>7, <1>8, <1>11, <1>14 DEF Inv, TypeOK, world
    <2>3. MirrorsOwn' /\ CertInv' /\ EcrInv'
      BY <1>7, <1>14 DEF Inv, RInv, MirrorsOwn, CertInv, EcrInv, world
    <2> QED
      BY <1>8, <2>1, <2>2, <2>3 DEF Inv, RInv
  <1>15. CASE ~UNCHANGED <<cred, fresh>>
    <2>1. /\ c = Management /\ fresh' = {}
          /\ cred' = IF cred # None THEN [cred EXCEPT !.docker = l]
                     ELSE [docker |-> l, config |-> None, ca |-> Nothing, insecure |-> {}]
      BY <1>2, <1>15 DEF WriteDocker
    <2>2. /\ cred' \in CredSecrets /\ cred'.docker = l
          /\ cred'.config = IF cred # None THEN cred.config ELSE None
          /\ cred'.ca = IF cred # None THEN cred.ca ELSE Nothing
      <3>1. cred \in CredSecrets \cup {None}
        BY DEF Inv, TypeOK
      <3>2. CASE cred # None
        BY <1>5, <2>1, <3>1, <3>2 DEF CredSecrets
      <3>3. CASE cred = None
        <4>1. cred' = [docker |-> l, config |-> None, ca |-> Nothing, insecure |-> {}]
          BY <2>1, <3>3
        <4>2. Nothing \in [Clusters -> Certificates \cup {None}]
          BY DEF Nothing
        <4> QED
          BY <1>5, <3>3, <4>1, <4>2 DEF CredSecrets
      <3> QED
        BY <3>2, <3>3
    <2>3. OwnCredentials'
      BY <1>5, <1>7, <1>13, <2>1, <2>2 DEF Inv, RInv, OwnCredentials, Nothing, world
    <2> QED
      BY <1>3, <1>7, <1>8, <1>11, <2>1, <2>2, <2>3, CredChange
  <1> QED
    BY <1>14, <1>15

LEMMA ReadStep ==
    ASSUME Inv, NEW j \in Jobs, JobRead(j) \/ JobWriteFails(j) \/ JobDies(j)
    PROVE  Inv'
  <1>1. token \in [Clusters -> SUBSET Namespaces]
    BY DEF Inv, TypeOK
  <1>2. faults' \in Nat
    BY FaultType DEF JobRead, JobWriteFails, JobDies
  <1>3. CASE JobRead(j)
    <2> DEFINE r == job[j]
               s == [r EXCEPT !.pc = "write"]
    <2>1. r \in JobStates /\ JobInv(r) /\ r.pc = "read"
      BY <1>3, Running DEF JobRead, At
    <2>2. s \in JobStates
      BY <2>1 DEF JobStates
    <2>3. s.pc = "write" /\ s.clients = r.clients /\ s.creds = r.creds /\ s.todo = r.todo /\ s.last = r.last
      BY <2>1 DEF JobStates
    <2>4. JobOnly(j, s) /\ fresh' = fresh \cup {j} /\ UNCHANGED <<world, token, login, cred>>
      BY <1>3 DEF JobRead
    <2> HIDE DEF r, s
    <2>5. JobInv(s)
      BY <2>1, <2>2, <2>3, PhaseFacts DEF JobInv
    <2> QED
      BY <1>1, <1>2, <2>2, <2>4, <2>5, JobAlone
  <1>4. CASE JobWriteFails(j) \/ JobDies(j)
    BY <1>1, <1>2, <1>4, JobAlone DEF JobWriteFails, JobDies
  <1> QED
    BY <1>3, <1>4

\* What a Job is going to write consists of the clusters' own secrets.
LEMMA DataFacts ==
    ASSUME NEW r \in JobStates, JobInv(r), r.pc = "write"
    PROVE  /\ Data(r) \in CredSecrets
           /\ \E m \in Mirrors[Management] : m.login = Data(r).docker
           /\ \A c \in Clusters : Data(r).ca[c] # None => \E m \in Mirrors[c] : m.ca = Data(r).ca[c]
           /\ \E c \in known : \E m \in Mirrors[c] : m.login = Data(r).config
  <1>1. r.creds \in [Clusters -> MirrorSecrets \cup {None}] /\ r.clients \subseteq Clusters
    BY DEF JobStates
  <1>2. /\ r.creds[Management] \in MirrorSecrets /\ r.creds[Management] \in Mirrors[Management]
        /\ r.creds[r.last] \in MirrorSecrets /\ r.creds[r.last] \in Mirrors[r.last] /\ r.last \in known
    BY <1>1 DEF JobInv, FetchedAll, FetchedOwn
  <1>3. r.creds[Management].login \in Logins /\ r.creds[r.last].login \in Logins
    BY <1>2 DEF MirrorSecrets
  <1> DEFINE cas == [c \in Clusters |-> IF r.creds[c] = None THEN None ELSE r.creds[c].ca]
             ins == {c \in Clusters : r.creds[c] # None /\ r.creds[c].insecure}
  <1>4. cas \in [Clusters -> Certificates \cup {None}] /\ ins \subseteq Clusters
    BY <1>1 DEF MirrorSecrets
  <1>5. /\ Data(r) = [docker |-> r.creds[Management].login, config |-> r.creds[r.last].login,
                      ca |-> cas, insecure |-> ins]
    BY DEF Data
  <1>6. \A c \in Clusters : cas[c] # None => \E m \in Mirrors[c] : m.ca = cas[c]
    BY DEF JobInv, FetchedOwn
  <1> HIDE DEF cas, ins
  <1>7. Data(r) \in CredSecrets /\ Data(r).docker = r.creds[Management].login /\ Data(r).ca = cas
        /\ Data(r).config = r.creds[r.last].login
    BY <1>3, <1>4, <1>5 DEF CredSecrets
  <1> QED
    BY <1>2, <1>6, <1>7

\* UpdateSecret keeps the certificates that are not replaced.
LEMMA UpdateFacts ==
    ASSUME NEW old \in CredSecrets \cup {None}, NEW new \in CredSecrets
    PROVE  /\ UpdateSecret(old, new) \in CredSecrets /\ UpdateSecret(old, new).docker = new.docker
           /\ UpdateSecret(old, new).config = new.config
           /\ \A c \in Clusters :
                 UpdateSecret(old, new).ca[c] =
                     IF new.ca[c] = None /\ old # None THEN old.ca[c] ELSE new.ca[c]
  <1>1. CASE old = None
    BY <1>1 DEF UpdateSecret
  <1>2. CASE old # None
    <2> DEFINE cas == [c \in Clusters |-> IF new.ca[c] = None THEN old.ca[c] ELSE new.ca[c]]
               ins == new.insecure \cup old.insecure
    <2>1. cas \in [Clusters -> Certificates \cup {None}] /\ ins \subseteq Clusters
      BY <1>2 DEF CredSecrets
    <2>2. UpdateSecret(old, new) = [new EXCEPT !.ca = cas, !.insecure = ins]
      BY <1>2 DEF UpdateSecret, CredSecrets
    <2>3. \A c \in Clusters : cas[c] = IF new.ca[c] = None THEN old.ca[c] ELSE new.ca[c]
      OBVIOUS
    <2> HIDE DEF cas, ins
    <2>4. /\ UpdateSecret(old, new) \in CredSecrets /\ UpdateSecret(old, new).docker = new.docker
          /\ UpdateSecret(old, new).ca = cas /\ UpdateSecret(old, new).config = new.config
      BY <2>1, <2>2 DEF CredSecrets
    <2> QED
      BY <1>2, <2>3, <2>4
  <1> QED
    BY <1>1, <1>2

LEMMA WriteStep == ASSUME Inv, NEW j \in Jobs, JobWrite(j) PROVE Inv'
  <1> DEFINE new == Data(job[j])
  <1>1. job[j] \in JobStates /\ JobInv(job[j]) /\ job[j].pc = "write"
    BY Running DEF JobWrite, At
  <1>2. /\ new \in CredSecrets /\ \E m \in Mirrors[Management] : m.login = new.docker
        /\ \A c \in Clusters : new.ca[c] # None => \E m \in Mirrors[c] : m.ca = new.ca[c]
        /\ \E c \in known : \E m \in Mirrors[c] : m.login = new.config
    BY <1>1, DataFacts
  <1>3. cred' = UpdateSecret(cred, new) /\ fresh' = {} /\ UNCHANGED <<world, token, login, faults, certs, ecr>>
    BY DEF JobWrite, JobOnly
  <1> HIDE DEF new
  <1>4. /\ cred \in CredSecrets \cup {None} /\ faults \in Nat
        /\ login \in [Clusters -> [Namespaces -> Logins \cup {None}]]
    BY DEF Inv, TypeOK
  <1>5. /\ cred' \in CredSecrets /\ cred'.docker = new.docker /\ cred'.config = new.config
        /\ \A c \in Clusters :
              cred'.ca[c] = IF new.ca[c] = None /\ cred # None THEN cred.ca[c] ELSE new.ca[c]
    BY <1>2, <1>3, <1>4, UpdateFacts
  <1>6. job' \in [Jobs -> JobStates \cup {None}] /\ JobsInv'
    BY JobChange DEF JobWrite, JobOnly, world
  <1>7. OwnCredentials'
    BY <1>2, <1>3, <1>5 DEF Inv, RInv, OwnCredentials, world
  <1> QED
    BY <1>3, <1>4, <1>5, <1>6, <1>7, CredChange

-----------------------------------------------------------------------------
(* The injectors.                                                          *)

\* Steps that write nothing but the injectors' own state.
LEMMA InjectorAlone ==
    ASSUME Inv, UNCHANGED <<world, token, login, cred, job>>, faults' \in Nat, fresh' \subseteq Writers,
           certs' \in CertStates \cup {None}, ecr' \in BOOLEAN, CertInv', EcrInv'
    PROVE  Inv'
  <1>1. TypeOK'
    BY DEF Inv, TypeOK, world
  <1>2. MirrorsOwn' /\ JobsInv' /\ OwnCredentials'
    BY DEF Inv, RInv, MirrorsOwn, JobsInv, JobInv, FetchedOwn, FetchedAll, OwnCredentials, world
  <1> QED
    BY <1>1, <1>2 DEF Inv, RInv

LEMMA CertificateStep == ASSUME Inv, CertStep \/ \E c \in Clusters : CertFetch(c) PROVE Inv'
  <1>1. /\ faults \in Nat /\ fresh \subseteq Writers /\ ecr \in BOOLEAN /\ EcrInv
        /\ certs \in CertStates \cup {None} /\ cred \in CredSecrets \cup {None}
        /\ mirror \in [Clusters -> MirrorSecrets \cup {None}]
        /\ login \in [Clusters -> [Namespaces -> Logins \cup {None}]]
        /\ job \in [Jobs -> JobStates \cup {None}] /\ JobsInv
    BY DEF Inv, RInv, TypeOK
  <1>2. ASSUME NEW c \in Clusters, CertFetch(c) PROVE Inv'
    <2> DEFINE r == [c |-> c, ca |-> FetchCertContent(c), copy |-> None]
    <2>1. /\ certs' = r /\ UNCHANGED <<world, token, login, cred, fresh, faults, job, ecr>>
          /\ mirror[c] # None /\ mirror[c].ca # None /\ FetchCertContent(c) = mirror[c].ca
      BY <1>2 DEF CertFetch, CertsOnly, FetchCertContent
    <2>2. mirror[c].ca \in Certificates /\ mirror[c] \in Mirrors[c]
      BY <1>1, <2>1 DEF MirrorSecrets, Inv, RInv, MirrorsOwn
    <2>3. r \in CertStates /\ r.c = c /\ r.ca = mirror[c].ca /\ r.copy = None
      BY <2>1, <2>2 DEF CertStates
    <2> HIDE DEF r
    <2>4. CertInv' /\ EcrInv'
      BY <1>1, <2>1, <2>2, <2>3 DEF CertInv, EcrInv
    <2> QED
      BY <1>1, <2>1, <2>3, <2>4, InjectorAlone
  <1>3. CASE CertMissing
    <2>1. /\ certs' = [certs EXCEPT !.copy = cred] /\ fresh' = fresh \cup {"certs"}
          /\ UNCHANGED <<world, token, login, cred, faults, job, ecr>>
          /\ certs # None /\ cred # None
      BY <1>3 DEF CertMissing, CertsOnly
    <2>2. certs' \in CertStates /\ certs'.c = certs.c /\ certs'.ca = certs.ca /\ certs'.copy = cred
      BY <1>1, <2>1 DEF CertStates
    <2>3. CertInv' /\ EcrInv'
      BY <1>1, <2>1, <2>2 DEF Inv, RInv, CertInv, EcrInv
    <2>4. fresh' \subseteq Writers
      BY <1>1, <2>1 DEF Writers
    <2> QED
      BY <1>1, <2>1, <2>2, <2>3, <2>4, InjectorAlone
  <1>4. CASE CertPresent \/ CertUpdateFails
    <2>1. certs' = None /\ UNCHANGED <<world, token, login, cred, fresh, job, ecr>>
      BY <1>4 DEF CertPresent, CertUpdateFails, CertsOnly
    <2>2. faults' \in Nat
      BY <1>4, FaultType DEF CertPresent, CertUpdateFails
    <2>3. CertInv' /\ EcrInv'
      BY <1>1, <2>1 DEF CertInv, EcrInv
    <2> QED
      BY <1>1, <2>1, <2>2, <2>3, InjectorAlone
  <1>5. CASE CertUpdate
    <2>1. /\ certs # None /\ certs.copy # None /\ "certs" \in fresh /\ certs' = None /\ fresh' = {}
          /\ cred' = [certs.copy EXCEPT !.ca[certs.c] = certs.ca]
          /\ UNCHANGED <<world, token, login, faults, job, ecr>>
      BY <1>5 DEF CertUpdate, CertsOnly
    <2>2. certs.copy = cred /\ \E m \in Mirrors[certs.c] : m.ca = certs.ca
      BY <2>1 DEF Inv, RInv, CertInv
    <2>3. certs.c \in Clusters /\ certs.ca \in Certificates /\ cred \in CredSecrets
      BY <1>1, <2>1, <2>2 DEF CertStates
    <2>4. cred' \in CredSecrets /\ cred'.docker = cred.docker /\ cred'.config = cred.config
      BY <2>1, <2>2, <2>3 DEF CredSecrets
    <2>5. \A d \in Clusters : cred'.ca[d] = IF d = certs.c THEN certs.ca ELSE cred.ca[d]
      BY <2>1, <2>2, <2>3 DEF CredSecrets
    <2>6. OwnCredentials'
      BY <2>1, <2>2, <2>3, <2>4, <2>5, NothingAssumption DEF Inv, RInv, OwnCredentials, world
    <2>7. JobsInv'
      BY <1>1, <2>1 DEF JobsInv, JobInv, FetchedOwn, FetchedAll, world
    <2> QED
      BY <1>1, <2>1, <2>4, <2>6, <2>7, CredChange
  <1> QED
    BY <1>2, <1>3, <1>4, <1>5 DEF CertStep

LEMMA CredentialStep == ASSUME Inv, EcrRead \/ EcrStep PROVE Inv'
  <1>1. /\ faults \in Nat /\ fresh \subseteq Writers
        /\ certs \in CertStates \cup {None} /\ cred \in CredSecrets \cup {None} /\ CertInv
        /\ login \in [Clusters -> [Namespaces -> Logins \cup {None}]]
        /\ job \in [Jobs -> JobStates \cup {None}] /\ JobsInv
    BY DEF Inv, RInv, TypeOK
  <1>2. CASE EcrRead
    <2>1. /\ ecr' = TRUE /\ fresh' = fresh \cup {"ecr"} /\ cred # None
          /\ UNCHANGED <<world, token, login, cred, faults, job, certs>>
      BY <1>2 DEF EcrRead, EcrOnly
    <2>2. CertInv' /\ EcrInv' /\ fresh' \subseteq Writers
      BY <1>1, <2>1 DEF CertInv, EcrInv, Writers
    <2> QED
      BY <1>1, <2>1, <2>2, InjectorAlone
  <1>3. CASE EcrSkip
    <2>1. ecr' = FALSE /\ UNCHANGED <<world, token, login, cred, fresh, job, certs>>
      BY <1>3 DEF EcrSkip, EcrOnly
    <2>2. faults' \in Nat
      BY <1>3, FaultType DEF EcrSkip
    <2>3. CertInv' /\ EcrInv'
      BY <1>1, <2>1 DEF CertInv, EcrInv
    <2> QED
      BY <1>1, <2>1, <2>2, <2>3, InjectorAlone
  <1>4. CASE EcrInject
    <2>1. /\ ecr' = FALSE /\ fresh' = {} /\ cred' = [cred EXCEPT !.config = "ecr"]
          /\ ecr /\ UNCHANGED <<world, token, login, faults, job, certs>>
      BY <1>4 DEF EcrInject, EcrOnly
    <2>2. cred \in CredSecrets
      BY <1>1, <2>1 DEF Inv, RInv, EcrInv
    <2>3. cred' \in CredSecrets /\ cred'.docker = cred.docker /\ cred'.ca = cred.ca /\ cred'.config = "ecr"
      BY <2>1, <2>2 DEF CredSecrets
    <2>4. OwnCredentials'
      BY <2>1, <2>2, <2>3, NothingAssumption DEF Inv, RInv, OwnCredentials, world
    <2>5. JobsInv'
      BY <1>1, <2>1 DEF JobsInv, JobInv, FetchedOwn, FetchedAll, world
    <2> QED
      BY <1>1, <2>1, <2>3, <2>4, <2>5, CredChange
  <1> QED
    BY <1>2, <1>3, <1>4 DEF EcrStep

-----------------------------------------------------------------------------
(* Users and clusters, and all steps together.                             *)

LEMMA EnvironmentStep == ASSUME Inv, Environment PROVE Inv'
  <1>1. /\ known \subseteq Clusters /\ kubeconfig \subseteq Clusters /\ edits \in Nat
        /\ mirror \in [Clusters -> MirrorSecrets \cup {None}] /\ MirrorsOwn
        /\ registry \in {"ecr", "other", None}
    BY DEF Inv, TypeOK, RInv
  <1>2. Edit /\ Untouched
    BY DEF Environment, Join, Leave, SetMirror, SetRegistry
  <1>3. edits' \in Nat
    BY <1>1, <1>2 DEF Edit
  <1>4. known' \subseteq Clusters /\ kubeconfig' \subseteq Clusters /\ known \subseteq known'
    BY <1>1 DEF Environment, Join, Leave, SetMirror, SetRegistry
  <1>5. mirror' \in [Clusters -> MirrorSecrets \cup {None}] /\ MirrorsOwn'
    <2>1. CASE UNCHANGED mirror
      BY <1>1, <1>4, <2>1 DEF MirrorsOwn
    <2>2. ASSUME NEW c \in Clusters, NEW m \in Mirrors[c], SetMirror(c, m)
          PROVE  mirror' \in [Clusters -> MirrorSecrets \cup {None}] /\ MirrorsOwn'
      <3>1. m \in MirrorSecrets
        BY ClustersAssumption
      <3>2. mirror' = [mirror EXCEPT ![c] = m]
        BY <2>2 DEF SetMirror
      <3> QED
        BY <1>1, <1>4, <3>1, <3>2 DEF MirrorsOwn
    <2> QED
      BY <2>1, <2>2 DEF Environment, Join, Leave, SetRegistry
  <1>6. registry' \in {"ecr", "other", None}
    BY <1>1 DEF Environment, Join, Leave, SetMirror, SetRegistry
  <1>7. TypeOK'
    BY <1>2, <1>3, <1>4, <1>5, <1>6 DEF Inv, TypeOK, Untouched
  <1>8. JobsInv' /\ CertInv' /\ EcrInv' /\ OwnCredentials'
    BY <1>2, <1>4 DEF Inv, RInv, JobsInv, JobInv, FetchedOwn, FetchedAll, CertInv, EcrInv,
                      OwnCredentials, Untouched
  <1> QED
    BY <1>5, <1>7, <1>8 DEF Inv, RInv

LEMMA InitInv == Init => Inv
  <1> SUFFICES ASSUME Init PROVE Inv
    OBVIOUS
  <1>1. TypeOK
    BY ClustersAssumption DEF Init, TypeOK
  <1>2. MirrorsOwn
    BY DEF Init, MirrorsOwn
  <1>3. JobsInv /\ CertInv /\ EcrInv /\ OwnCredentials
    BY DEF Init, JobsInv, CertInv, EcrInv, OwnCredentials
  <1> QED
    BY <1>1, <1>2, <1>3 DEF Inv, RInv

LEMMA NextInv == Inv /\ [Next]_vars => Inv'
  <1> SUFFICES ASSUME Inv, [Next]_vars PROVE Inv'
    OBVIOUS
  <1>1. CASE Environment
    BY <1>1, EnvironmentStep
  <1>2. CASE CertStep \/ \E c \in Clusters : CertFetch(c)
    BY <1>2, CertificateStep
  <1>3. CASE EcrRead \/ EcrStep
    BY <1>3, CredentialStep
  <1>4. ASSUME NEW j \in Jobs, JobStart(j) PROVE Inv'
    BY <1>4, StartStep
  <1>5. ASSUME NEW j \in Jobs, JobStep(j) PROVE Inv'
    BY <1>5, FetchStep, TokenStep, BroadcastStep, ReadStep, WriteStep DEF JobStep
  <1>6. CASE UNCHANGED vars
    <2>1. TypeOK'
      BY <1>6 DEF Inv, TypeOK, vars
    <2>2. RInv'
      BY <1>6 DEF Inv, RInv, MirrorsOwn, JobsInv, JobInv, FetchedOwn, FetchedAll, CertInv, EcrInv,
                  OwnCredentials, vars
    <2> QED
      BY <2>1, <2>2 DEF Inv
  <1> QED
    BY <1>1, <1>2, <1>3, <1>4, <1>5, <1>6 DEF Next

LEMMA AlwaysInv == Spec => []Inv
  BY InitInv, NextInv, PTL DEF Spec

\* Every step of users, clusters, refresher Jobs and injectors keeps the state well
\* formed.
THEOREM TypeCorrect == Spec => []TypeOK
  <1>1. Inv => TypeOK
    BY DEF Inv
  <1> QED
    BY <1>1, AlwaysInv, PTL

\* The pull secret of a namespace only ever has a login of its own cluster's mirror, that of
\* eksa-packages one of the management cluster, and a certificate is stored under the name
\* of its own cluster, whatever the order in which Jobs read and write and users change the
\* mirrors (BroadcastDockerAuthConfig, BroadcastCertAndConfigs, UpdateIfNeeded).
\* config.json has a login of any cluster the refresher knows, or that of ECR.
THEOREM LoginsStaySeparate == Spec => []OwnCredentials
  <1>1. Inv => OwnCredentials
    BY DEF Inv, RInv
  <1> QED
    BY <1>1, AlwaysInv, PTL

-----------------------------------------------------------------------------
(* No writer undoes another.                                               *)

\* All that happens to the secret: a new login, the update of a Job, one certificate, the
\* login to ECR.
LEMMA CredWrites ==
    ASSUME Inv, [Next]_vars, cred # None
    PROVE  cred' # None /\ \A c \in Clusters : cred.ca[c] # None => cred'.ca[c] # None
  <1> DEFINE Kept == cred' # None /\ \A c \in Clusters : cred.ca[c] # None => cred'.ca[c] # None
  <1>1. cred \in CredSecrets /\ certs \in CertStates \cup {None}
    BY DEF Inv, TypeOK
  <1>2. CASE UNCHANGED cred
    BY <1>2
  <1>3. ASSUME NEW j \in Jobs, NEW c \in Clusters, MirrorBroadcast(j, c) PROVE Kept
    <2> DEFINE l == BroadcastLogin(job[j], c)
    <2>1. UNCHANGED cred \/ cred' = [cred EXCEPT !.docker = l]
      BY <1>3 DEF MirrorBroadcast, WriteDocker
    <2>2. l \in Logins
      BY <1>3, Running, LoginFacts DEF MirrorBroadcast, At
    <2> HIDE DEF l
    <2>3. CASE cred' = [cred EXCEPT !.docker = l]
      <3>1. cred' \in CredSecrets /\ cred'.ca = cred.ca
        BY <1>1, <2>2, <2>3 DEF CredSecrets
      <3> QED
        BY <3>1, NothingAssumption
    <2> QED
      BY <2>1, <2>3, <1>2
  <1>4. ASSUME NEW j \in Jobs, JobWrite(j) PROVE Kept
    <2>1. job[j] \in JobStates /\ JobInv(job[j]) /\ job[j].pc = "write"
      BY <1>4, Running DEF JobWrite, At
    <2>2. Data(job[j]) \in CredSecrets
      BY <2>1, DataFacts
    <2>3. cred' = UpdateSecret(cred, Data(job[j]))
      BY <1>4 DEF JobWrite
    <2> QED
      BY <1>1, <2>2, <2>3, UpdateFacts, NothingAssumption
  <1>5. CASE CertUpdate
    <2>1. certs # None /\ certs.copy = cred /\ cred' = [certs.copy EXCEPT !.ca[certs.c] = certs.ca]
      BY <1>5 DEF CertUpdate, Inv, RInv, CertInv
    <2>2. certs.c \in Clusters /\ certs.ca \in Certificates
      BY <1>1, <2>1 DEF CertStates
    <2>3. cred' \in CredSecrets
      BY <1>1, <2>1, <2>2 DEF CredSecrets
    <2>4. \A d \in Clusters : cred'.ca[d] = IF d = certs.c THEN certs.ca ELSE cred.ca[d]
      BY <1>1, <2>1, <2>2 DEF CredSecrets
    <2> QED
      BY <2>2, <2>3, <2>4, NothingAssumption
  <1>6. CASE EcrInject
    <2>1. cred' = [cred EXCEPT !.config = "ecr"]
      BY <1>6 DEF EcrInject
    <2>2. cred' \in CredSecrets /\ cred'.ca = cred.ca
      BY <1>1, <2>1 DEF CredSecrets
    <2> QED
      BY <2>2, NothingAssumption
  <1> QED
    <2>1. Environment => UNCHANGED cred
      BY DEF Environment, Join, Leave, SetMirror, SetRegistry, Untouched
    <2>2. CertStep => UNCHANGED cred \/ CertUpdate
      BY DEF CertStep, CertMissing, CertPresent, CertUpdateFails
    <2>3. EcrRead \/ EcrStep => UNCHANGED cred \/ EcrInject
      BY DEF EcrRead, EcrStep, EcrSkip
    <2>4. ASSUME NEW j \in Jobs, JobStart(j) \/ JobStep(j)
          PROVE  UNCHANGED cred \/ JobWrite(j) \/ \E c \in Clusters : MirrorBroadcast(j, c)
      BY <2>4 DEF JobStart, JobStep, JobFetch, JobFetchFails, TokenBroadcast, NoToken, JobRead,
                  JobWriteFails, JobDies
    <2>5. ASSUME NEW c \in Clusters, CertFetch(c) PROVE UNCHANGED cred
      BY <2>5 DEF CertFetch
    <2>6. UNCHANGED vars => UNCHANGED cred
      BY DEF vars
    <2> HIDE DEF Kept
    <2> QED
      BY <1>2, <1>3, <1>4, <1>5, <1>6, <2>1, <2>2, <2>3, <2>4, <2>5, <2>6 DEF Next, Kept

\* However the refresher Jobs and the two injectors interleave their reads and writes of
\* registry-mirror-cred, a certificate that is there stays there (UpdateSecret,
\* CertInjector.UpdateIfNeeded, InjectCredential).
THEOREM CertificatesStay == Spec => CertificatesKept
  <1>1. Inv /\ [Next]_vars =>
           [cred # None =>
               cred' # None /\ \A c \in Clusters : cred.ca[c] # None => cred'.ca[c] # None]_vars
    BY CredWrites
  <1> QED
    BY <1>1, AlwaysInv, PTL DEF Spec, CertificatesKept

=============================================================================
