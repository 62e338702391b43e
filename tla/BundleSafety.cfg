\* One PBC that users create, change, clear and delete; its cluster is upgraded from
\* Kubernetes 1.21 to 1.22, which have a bundle each; a fault or a crash.
CONSTANTS
    None = None
    Clusters = {"mgmt"}
    Management = "mgmt"
    BundleNames = {"v1-21-1", "v1-22-1"}
    KubeVersions = {"1.21", "1.22"}
    KubeOf <- ByPrefix
    Valid = {"v1-21-1", "v1-22-1"}
    Compatible = {"v1-21-1", "v1-22-1"}
    Foreign = {}
    AwsSecret = TRUE
    Choices <- OnePerVersion
    Deletable = {"mgmt", "v1-21-1"}
    Imports = {}
    Published = {}
    Upgrades <- ToNewer
    MaxEdits = 3
    MaxFaults = 1
SPECIFICATION Spec
INVARIANTS TypeOK PreparedBeforeUpgrade
PROPERTIES UserChoiceKept StatesFollowSwitch ActiveMatchesKube
CHECK_DEADLOCK FALSE
