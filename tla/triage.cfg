SPECIFICATION LateSpec
CONSTANTS
    m1 = m1
    m2 = m2
    m3 = m3
    m4 = m4
    a1 = a1
    w1 = w1
    w2 = w2
    d1 = d1
    c1 = c1
    None = None
    Messages = {m1, m2, m3}
    Alert <- Burst
    CloudSources <- MCCloud
    NoValue <- None
    Window = 2
    MaxAge = 3
    CandidateLimit = 2
    MaxTasks = 2
    BatchSize = 2
    FpThreshold = 90
    Scores = {20, 95}
    RuleSeverities = {0}
    Analysts = {a1}
    Patchers = {}
    CaseOpeners = {}
    Sweepers = {w1}
    Archivers = {}
    Purgers = {}
    MaxIncidents = 2
    MaxOps = 2
    MaxCrashes = 0
INVARIANTS
    CountMatchesLinks
    AuditTail
    CaseOpenedOnce
    OneLateJoin
