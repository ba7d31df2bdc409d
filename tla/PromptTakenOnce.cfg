SPECIFICATION Spec
CONSTANTS
    None = None
    t1 = t1
    Texts = {t1}
    MaxIds = 1
    Regimes <- OneRegime
INVARIANT TakenOnce
CHECK_DEADLOCK FALSE
