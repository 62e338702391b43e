\* Four kinds of node; the secret is rotated twice, a fault and a crash.
CONSTANTS
    None = None
    Empty = Empty
    Torn = Torn
    Nodes <- AllNodes
    UserLines <- SomeLines
    MaxRotations = 2
    MaxFaults = 1
    MaxCrashes = 1
SPECIFICATION FairSpec
INVARIANTS TypeOK FlagsOnce CredentialsFirst
PROPERTIES FilesBeforeFlags RotationReachesNode Configured
CHECK_DEADLOCK FALSE
