SPECIFICATION Spec
CONSTANTS
    m1 = m1
    m2 = m2
    m3 = m3
    m4 = m4
    a1 = a1
    w1 = w1
    w2 = w2
    d1 = d1
    c1 = c1
    None = None
    Messages = {m1, m2, m3, m4}
    Alert <- OneHost
    CloudSources <- MCCloud
    NoValue <- None
    Window = 2
    MaxAge = 3
    CandidateLimit = 2
    MaxTasks = 3
    BatchSize = 2
    FpThreshold = 90
    Scores = {20, 50, 95}
    RuleSeverities = {0, 3}
    Analysts = {}
    Patchers = {}
    CaseOpeners = {}
    Sweepers = {}
    Archivers = {d1}
    Purgers = {}
    MaxIncidents = 3
    MaxOps = 1
    MaxCrashes = 1
INVARIANTS
    OneRowPerEvent
    SameHostGroups
    NoOrphanAlerts
PROPERTIES
    ArchiveOnlySettled
    TableSpec
