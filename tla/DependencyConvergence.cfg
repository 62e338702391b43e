\* app depends on lib, which the controller creates; a fault, no crash.
CONSTANTS
    None = None
    Names = {"app", "lib"}
    NsOf <- AllCluster
    ReleaseNames = {"app", "lib"}
    RelOf <- OwnRelease
    PackageNames = {"app", "lib"}
    Versions = {"latest"}
    Latest = "latest"
    Configs = {"c1"}
    Unparsable = {}
    OwnPull = {}
    Namespaces = {"dflt"}
    Bundles = {"b1", "b2"}
    Sources = {"app1", "app2", "lib"}
    Find <- FindApp
    Deps <- AppNeedsLib
    Accepts <- AcceptAll
    ChartNs <- ChartDefault
    DepKey <- KeyIsName
    Internal = {}
    Management = {}
    WorkloadOnly = {}
    Wanted <- WantApp
    Activations <- Forward
    Deletable = {"app"}
    HelmMayHang = FALSE
    Placeholders = {}
    Suspended = FALSE
    MaxEdits = 2
    MaxFaults = 1
    MaxCrashes = 0
SPECIFICATION FairSpec
PROPERTIES Converges
CHECK_DEADLOCK FALSE
