SPECIFICATION Spec
CONSTANTS
    NoLock = NoLock
    Garbled = Garbled
    FirstLock = Garbled
    MAX_RAPID_RESTARTS = 1
    LIVENESS_STRIKES = 2
    Versions = {1, 2}
    MaxHubs = 1
    MaxLaunches = 1
    MaxClicks = 0
    MaxLost = 0
    MaxUpsets = 0
PROPERTY NeverRestartsMidTurn
CHECK_DEADLOCK FALSE
