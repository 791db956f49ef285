CONSTANTS
    g1 = g1
    g2 = g2
    s1 = s1
    s2 = s2
    s3 = s3
    s4 = s4
    s5 = s5
    q1 = q1
    NoReplica = NoReplica
    NoRequest = NoRequest
    Replicas <- TwoReplicas
    Sync <- TwoSync
    Queued <- OneQueued
    Size <- MixedSizes
    SummarySizes = {1, 3}
    ReferenceSizes = {1}
    MaxEvents = 1
    Capacity = 6
    Threshold = 2
    KeepRecent = 1
    MaxDispatches = 3
    Budgets = {3}
SPECIFICATION Spec
SYMMETRY Symmetry
CHECK_DEADLOCK FALSE
INVARIANTS
    TypeOK
    NoTurnLost
    RecentTurnsKept
    OnlyAdmittedRecorded
    SelectionFits
