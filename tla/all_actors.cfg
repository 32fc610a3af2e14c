SPECIFICATION FairSpec
CONSTANTS
    m1 = m1
    m2 = m2
    m3 = m3
    m4 = m4
    a1 = a1
    w1 = w1
    w2 = w2
    d1 = d1
    c1 = c1
    None = None
    Messages = {m1, m2}
    Alert <- Apart
    CloudSources <- MCCloud
    NoValue <- None
    Window = 2
    MaxAge = 3
    CandidateLimit = 2
    MaxTasks = 1
    BatchSize = 2
    FpThreshold = 90
    Scores = {20, 95}
    RuleSeverities = {0}
    Analysts = {a1}
    Patchers = {a1}
    CaseOpeners = {c1}
    Sweepers = {w1, w2}
    Archivers = {}
    Purgers = {d1}
    MaxIncidents = 2
    MaxOps = 2
    MaxCrashes = 0
INVARIANTS
    TypeOK
    LocksOwned
PROPERTIES
    EveryAlertSettles
    EveryRequestEnds
