SPECIFICATION PartsSpec
CONSTANTS
    None = None
    Omit = Omit
    r1 = r1
    r2 = r2
    e1 = e1
    e2 = e2
    n1 = n1
    n2 = n2
    k1 = k1
    k2 = k2
    k3 = k3
    p1 = p1
    Questions <- SomeQuestions
    Workloads <- SomeWorkloads
    Models = {m1, m2}
    MaxTurns = 2
    MaxSteps = 2
    MaxMeta = 2
    MaxLoss = 1
    MaxFailures = 1
    MaxReloads = 1
    MaxStream = 2
    Callers = {k1, k2, k3}
    Cwds = {p1}
    NotCached = NotCached
    CacheLoads <- SomeLoads
    MaxBadOutputs = 1
    Modes = {"standard", "bypass"}
    ModelNames = {m1, m2}
    Unset = Unset
    MaxSwitches = 2
    MaxDrops = 1
    MaxRefusals = 1
    Plans <- SomePlans
    NoScript = 0
    Rows = {r1, r2}
    Subscribers = {e1, e2}
    Names = {n1, n2}
    Shells = {"", "zsh"}
    Specs <- SomeSpecs
    Catalogs <- SomeCatalogs
    Untitled = Untitled
    Errands <- SomeErrands
INVARIANT TranscriptMatchesHistory
INVARIANT StatusIsTrue
INVARIANT QuestionsAreSettled
INVARIANT QueueIsAccounted
INVARIANT SettledCachesAreFresh
INVARIANT SingleFlight
INVARIANT BadgeIsTruthful
INVARIANT ScriptsPlayOut
INVARIANT AnsweredChangesLast
CHECK_DEADLOCK FALSE
