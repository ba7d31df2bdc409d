SPECIFICATION FairSpec
CONSTANTS
    None = None
    t1 = t1
    Texts = {t1}
    MaxIds = 2
    Regimes <- SomeRegimes
INVARIANT NoTextLost
PROPERTY ClearedIsNotResent
PROPERTY EveryPromptSettles
CHECK_DEADLOCK FALSE
