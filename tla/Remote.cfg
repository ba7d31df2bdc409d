SPECIFICATION BothSpec
CONSTANTS
    None = None
    h1 = h1
    c1 = c1
    c2 = c2
    vol = vol
    Hosts = {h1}
    Profiles <- SomeProfiles
    Containers = {c1, c2}
    Inspect <- SomeMounts
    OnPath = {"compatible", "missing", "garbled"}
    Targets = {"linux-x86_64-glibc", "linux-x86_64-musl"}
    Fused = {TRUE, FALSE}
    AllowOverlap = FALSE
    MaxSessions = 2
    MaxRelays = 1
    MaxAttempts = 1
    MaxUpsets = 1
    PrefixBytes = 4
    MAX_FRAME_BYTES = 2
    Sizes = {1, 2, 3}
    Misread <- SomeMisread
    Directions = {"toClient", "toServer"}
    MaxMessages = 3
    MaxRead = 12
INVARIANT RunsOnlyWhereAcknowledged
INVARIANT InstalledServerIsWhole
PROPERTY QuietAfterStop
PROPERTY ImplementsChannel
CHECK_DEADLOCK FALSE
