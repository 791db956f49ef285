CONSTANTS
    g1 = g1
    g2 = g2
    s1 = s1
    s2 = s2
    s3 = s3
    s4 = s4
    s5 = s5
    q1 = q1
    NoReplica = NoReplica
    NoRequest = NoRequest
    Replicas <- OneReplica
    Sync <- FourSync
    Queued <- NoQueued
    Size <- UnitSizes
    SummarySizes = {1}
    ReferenceSizes = {1}
    MaxEvents = 0
    Capacity = 6
    Threshold = 1
    KeepRecent = 1
    MaxDispatches = 1
    Budgets = {}
SPECIFICATION Spec
CHECK_DEADLOCK FALSE
INVARIANTS
    SavedIsExact
