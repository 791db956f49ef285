CONSTANTS
    c1 = c1
    c2 = c2
    r1 = r1
    g1 = g1
    g2 = g2
    NoCall = NoCall
    Calls <- OneCall
    Requests <- OneRequest
    RequestOf <- SharedId
    Replicas <- TwoReplicas
    MaxRetries = 1
    MaxFaults = 2
    IdleWhileHeld = TRUE
SPECIFICATION FairSpec
INVARIANTS
    TypeOK
    NoJobLost
    AttemptsWithinDeliveries
    RetryBudget
PROPERTIES
    KeepsPromise
    
    EveryJobSettles
    EveryCallReturns
\* The calls are finitely many: once they are served the system is at rest.
CHECK_DEADLOCK FALSE
