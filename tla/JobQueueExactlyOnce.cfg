CONSTANTS
    c1 = c1
    c2 = c2
    r1 = r1
    g1 = g1
    g2 = g2
    NoCall = NoCall
    Calls <- OneCall
    Requests <- OneRequest
    RequestOf <- SharedId
    Replicas <- TwoReplicas
    MaxRetries = 3
    MaxFaults = 0
    IdleWhileHeld = TRUE
SPECIFICATION Spec
INVARIANTS
    ProcessedAtMostOnce
CHECK_DEADLOCK FALSE
