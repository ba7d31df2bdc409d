SPECIFICATION FairSpec
CONSTANTS
    NoLock = NoLock
    Garbled = Garbled
    FirstLock = NoLock
    MAX_RAPID_RESTARTS = 1
    LIVENESS_STRIKES = 2
    Versions = {1, 2}
    MaxHubs = 3
    MaxLaunches = 2
    MaxClicks = 1
    MaxLost = 1
    MaxUpsets = 2
INVARIANT OneServer
INVARIANT HubsAreOwned
INVARIANT AttendedInstallsAreAsked
PROPERTY CardSettles
CHECK_DEADLOCK FALSE
