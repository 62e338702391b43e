\* A Package in the deprecated namespace and one outside; a configuration that is not YAML.
CONSTANTS
    None = None
    Names = {"old", "invalid"}
    NsOf <- ByName
    ReleaseNames = {"old", "invalid"}
    RelOf <- OwnRelease
    PackageNames = {"p"}
    Versions = {"latest"}
    Latest = "latest"
    Configs = {"c1", "c2"}
    Unparsable = {"c2"}
    OwnPull = {}
    Namespaces = {"dflt"}
    Bundles = {"b1", "b2"}
    Sources = {"p1", "p2"}
    Find <- FindP
    Deps <- NoDeps
    Accepts <- AcceptAll
    ChartNs <- ChartDefault
    DepKey <- SelfKey
    Internal = {"old"}
    Management = {}
    WorkloadOnly = {}
    Wanted <- WantP
    Activations <- Forward
    Deletable = {"old", "invalid"}
    HelmMayHang = TRUE
    Placeholders = {"dflt"}
    Suspended = FALSE
    MaxEdits = 3
    MaxFaults = 1
    MaxCrashes = 0
SPECIFICATION FairSpec
INVARIANTS WrongNamespaceInert
PROPERTIES WrongNamespaceIgnored
CHECK_DEADLOCK FALSE
