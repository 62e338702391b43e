\* A workload cluster, a PBC of another one and a bundle in foreign namespaces; a fault
\* or a crash.
CONSTANTS
    None = None
    Clusters = {"mgmt", "work"}
    Management = "mgmt"
    BundleNames = {"v1-21-1", "v1-21-2", "v1-21-9"}
    KubeVersions = {"1.21"}
    KubeOf <- ByPrefix
    Valid = {"v1-21-1", "v1-21-2", "v1-21-9"}
    Compatible = {"v1-21-1", "v1-21-2"}
    Foreign = {"mgmt", "v1-21-9"}
    AwsSecret = TRUE
    Choices <- ForeignToo
    Deletable = {"v1-21-1"}
    Imports = {"v1-21-9"}
    Published = {"v1-21-2"}
    Upgrades = {}
    MaxEdits = 2
    MaxFaults = 1
SPECIFICATION FairSpec
INVARIANTS ForeignInert
PROPERTIES Converges
CHECK_DEADLOCK FALSE
