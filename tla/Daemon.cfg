SPECIFICATION FairSpec
CONSTANTS
    None = None
    Pids = {1, 2}
    MaxBirths = 3
    MaxFaults = 2
    MaxTreeFaults = 1
INVARIANT StrangersAreSpared
INVARIANT DaemonsAreAccounted
INVARIANT UncommittedWorkSurvives
PROPERTY OpsEndUnlessHung
CHECK_DEADLOCK FALSE
