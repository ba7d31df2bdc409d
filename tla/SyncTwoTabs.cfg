SPECIFICATION Spec
CONSTANTS
    None = None
    s1 = s1
    s2 = s2
    c1 = c1
    c2 = c2
    e1 = e1
    Session = {s1}
    Client = {c1, c2}
    Event = {e1}
    Seeds <- OneSeed
    DefaultFocus = None
    TailMaxFrames = 1
    ChanCap = 2
    MaxEpoch = 2
    MaxSeq = 2
    MaxOpens = 1
    MaxReloads = 1
    MaxDrops = 1
    MaxUpsets = 1
    MaxUp = 1
INVARIANT ViewIsPrefix
INVARIANT InFlightTruthful
SYMMETRY Symmetry
CHECK_DEADLOCK FALSE
