\* app depends on lib in every version; no crash.
CONSTANTS
    None = None
    Names = {"app", "lib"}
    NsOf <- AllCluster
    ReleaseNames = {"app", "lib"}
    RelOf <- OwnRelease
    PackageNames = {"app", "lib"}
    Versions = {"latest"}
    Latest = "latest"
    Configs = {"c1"}
    Unparsable = {}
    OwnPull = {}
    Namespaces = {"apps", "libs"}
    Bundles = {"b1", "b2"}
    Sources = {"app1", "app2", "lib"}
    Find <- FindApp
    Deps <- AppNeedsLib
    Accepts <- AcceptAll
    ChartNs <- LibApart
    DepKey <- KeyIsName
    Internal = {}
    Management = {}
    WorkloadOnly = {}
    Wanted <- WantApp
    Activations <- Forward
    Deletable = {"app"}
    HelmMayHang = TRUE
    Placeholders = {"apps"}
    Suspended = FALSE
    MaxEdits = 3
    MaxFaults = 1
    MaxCrashes = 0
SPECIFICATION Spec
INVARIANTS NoOrphan NsMapMatchesReleases
PROPERTIES DependenciesFirst
CHECK_DEADLOCK FALSE
