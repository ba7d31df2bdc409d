SPECIFICATION FairSpec
CONSTANTS
    None = None
    Omit = Omit
    u1 = u1
    u2 = u2
    f1 = f1
    g1 = g1
    m1 = m1
    k1 = k1
    d1 = d1
    t1 = t1
    Alphabet <- Workloads
    Seed <- Opened
    Waiting <- Prompts
    TailMaxFrames = 2
    MaxEvents = 4
INVARIANT SeedFoldsToView
INVARIANT NothingLost
PROPERTY HeldRunReachesViewers
CHECK_DEADLOCK FALSE
