SPECIFICATION BothSpec
CONSTANTS
    None = None
    Null = Null
    s1 = s1
    s2 = s2
    c1 = c1
    c2 = c2
    e1 = e1
    Session = {s1, s2}
    Client = {c1}
    Event = {e1}
    Seeds <- OneSeed
    DefaultFocus = None
    TailMaxFrames = 1
    ChanCap = 30
    MaxEpoch = 2
    MaxSeq = 1
    MaxOpens = 2
    MaxReloads = 0
    MaxDrops = 1
    MaxUpsets = 1
    MaxUp = 2
    Sessions = {s1, s2}
    Opened <- OneOpened
    Busy = {s1}
    WarmCap = 1
    MaxConns = 3
    MaxOps = 3
    MaxRows = 1
    MaxExtras = 1
INVARIANT TypeOK
INVARIANT JournalsTruthful
INVARIANT ViewersAreServed
INVARIANT WarmSessionsAreWhole
PROPERTY ViewNeverRegresses
PROPERTY CapRespected
CHECK_DEADLOCK FALSE
