\* One Package, two bundles in any order, a fault and a crash.
CONSTANTS
    None = None
    Names = {"n"}
    NsOf <- AllCluster
    ReleaseNames = {"n"}
    RelOf <- OwnRelease
    PackageNames = {"p"}
    Versions = {"latest"}
    Latest = "latest"
    Configs = {"c1", "c2"}
    Unparsable = {}
    OwnPull = {"c2"}
    Namespaces = {"dflt"}
    Bundles = {"b1", "b2"}
    Sources = {"p1", "p2"}
    Find <- FindP
    Deps <- NoDeps
    Accepts <- AcceptAll
    ChartNs <- ChartDefault
    DepKey <- SelfKey
    Internal = {}
    Management = {}
    WorkloadOnly = {}
    Wanted <- WantP
    Activations <- AnyChange
    Deletable = {"n"}
    HelmMayHang = TRUE
    Placeholders = {}
    Suspended = TRUE
    MaxEdits = 3
    MaxFaults = 1
    MaxCrashes = 1
SPECIFICATION Spec
INVARIANTS TypeOK InstalledHasRelease Consistent CacheOneBehind
PROPERTIES NeverUninstallLive StatesFollowArcs ImplementsContract
CHECK_DEADLOCK FALSE
