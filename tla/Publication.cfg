\* Two runs of the generator among changes of the registry; two changes by users; a fault.
CONSTANTS
    None = None
    Torn = Torn
    TrustedKey = "key"
    KmsKey = "key"
    OtherKey = "other"
    Repositories = {"r", "s"}
    Charts = {"r1", "r2", "r3", "s0", "s1", "tool", "tool2"}
    Requires <- Contents
    OtherMedia = {"tool", "tool2"}
    Tags = {"1.0", "2.0", "latest", "1.0-latest", "1.0.1-latest", "nightlylatest"}
    Kind <- KindOfTag
    Keeps <- KeptTags
    Stock <- FirstStock
    Pushes <- LaterPushes
    PageSize = 2
    Invocations <- Files
    MaxRuns = 2
    MaxEdits = 2
    MaxFaults = 1
SPECIFICATION Spec
INVARIANTS PublishedIsAccepted StoredVerifies  ChartMatchesDigest AsRequested
CHECK_DEADLOCK FALSE
