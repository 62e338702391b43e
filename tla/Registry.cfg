\* A management and a workload cluster, whose mirror is renewed; a refresher Job and
\* both injectors; a fault.
CONSTANTS
    None = None
    Clusters = {"mgmt", "work"}
    Management = "mgmt"
    Namespaces = {"eksa-packages", "apps"}
    Own = "eksa-packages"
    Listed <- OneNamespaceEach
    Logins = {"m", "w1", "w2"}
    Certificates = {"ca0", "ca1", "ca2"}
    Mirrors <- OneMirrorEach
    AwsActive = TRUE
    Custom = {"work"}
    Jobs = {"j1"}
    MaxEdits = 2
    MaxFaults = 1
SPECIFICATION FairSpec
INVARIANTS TypeOK OwnCredentials
PROPERTIES CertificatesKept Converges TokensArrive EcrReturns
CHECK_DEADLOCK FALSE
