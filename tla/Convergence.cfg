\* One Package, bundles that only go forward, a fault and a crash.
CONSTANTS
    None = None
    Names = {"n"}
    NsOf <- AllCluster
    ReleaseNames = {"n"}
    RelOf <- OwnRelease
    PackageNames = {"p"}
    Versions = {"latest"}
    Latest = "latest"
    Configs = {"c1", "c2"}
    Unparsable = {}
    OwnPull = {}
    Namespaces = {"dflt"}
    Bundles = {"b1", "b2"}
    Sources = {"p1", "p2"}
    Find <- FindP
    Deps <- NoDeps
    Accepts <- AcceptAll
    ChartNs <- ChartDefault
    DepKey <- SelfKey
    Internal = {}
    Management = {}
    WorkloadOnly = {}
    Wanted <- WantP
    Activations <- Forward
    Deletable = {"n"}
    HelmMayHang = FALSE
    Placeholders = {}
    Suspended = FALSE
    MaxEdits = 3
    MaxFaults = 1
    MaxCrashes = 1
SPECIFICATION FairSpec
PROPERTIES Converges NamespaceGetsSecret
CHECK_DEADLOCK FALSE
