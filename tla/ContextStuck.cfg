CONSTANTS
    g1 = g1
    g2 = g2
    s1 = s1
    s2 = s2
    s3 = s3
    s4 = s4
    s5 = s5
    q1 = q1
    NoReplica = NoReplica
    NoRequest = NoRequest
    Replicas <- OneReplica
    Sync <- FiveSync
    Queued <- NoQueued
    Size <- UnitSizes
    SummarySizes = {1}
    ReferenceSizes = {1}
    MaxEvents = 0
    Capacity = 4
    Threshold = 4
    KeepRecent = 1
    MaxDispatches = 1
    Budgets = {}
SPECIFICATION FairSpec
CHECK_DEADLOCK FALSE
PROPERTIES
    EveryRequestAdmitted
