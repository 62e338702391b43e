\* Only the second version of app depends on lib.
CONSTANTS
    None = None
    Names = {"app", "lib"}
    NsOf <- AllCluster
    ReleaseNames = {"app", "lib"}
    RelOf <- OwnRelease
    PackageNames = {"app", "lib"}
    Versions = {"latest"}
    Latest = "latest"
    Configs = {"c1"}
    Unparsable = {}
    OwnPull = {}
    Namespaces = {"dflt"}
    Bundles = {"b1", "b2"}
    Sources = {"app1", "app2", "lib"}
    Find <- FindApp
    Deps <- App2NeedsLib
    Accepts <- AcceptAll
    ChartNs <- ChartDefault
    DepKey <- KeyIsName
    Internal = {}
    Management = {}
    WorkloadOnly = {}
    Wanted <- WantApp
    Activations <- Forward
    Deletable = {"app"}
    HelmMayHang = TRUE
    Placeholders = {}
    Suspended = FALSE
    MaxEdits = 3
    MaxFaults = 0
    MaxCrashes = 0
SPECIFICATION Spec
PROPERTIES DependenciesFirst
CHECK_DEADLOCK FALSE
