SPECIFICATION FairSpec
CONSTANTS
    NoLock = 0
    Garbled = 99
    Proxies = {1, 2, 3}
    Runtimes = {4, 5}
    Openable = {s1}
    ReapAfter = 1
    ExitAfter = 2
    MaxFaults = 2
INVARIANT OneRuntime
PROPERTY BothEndsSettle
CHECK_DEADLOCK FALSE
