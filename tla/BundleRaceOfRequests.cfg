\* Two clusters of different versions: the webhook handles two requests at once.
CONSTANTS
    None = None
    Clusters = {"mgmt", "work"}
    Management = "mgmt"
    BundleNames = {"v1-21-1", "v1-22-1"}
    KubeVersions = {"1.21", "1.22"}
    KubeOf <- ByPrefix
    Valid = {"v1-21-1", "v1-22-1"}
    Compatible = {"v1-21-1", "v1-22-1"}
    Foreign = {}
    AwsSecret = TRUE
    Choices <- AnyBundle
    Deletable = {}
    Imports = {"v1-21-1", "v1-22-1"}
    Published = {}
    Upgrades = {}
    MaxEdits = 4
    MaxFaults = 0
SPECIFICATION Spec
PROPERTIES ActiveMatchesKube
CHECK_DEADLOCK FALSE
