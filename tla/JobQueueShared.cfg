CONSTANTS
    c1 = c1
    c2 = c2
    r1 = r1
    g1 = g1
    g2 = g2
    NoCall = NoCall
    Calls <- TwoCalls
    Requests <- OneRequest
    RequestOf <- SharedId
    Replicas <- TwoReplicas
    MaxRetries = 2
    MaxFaults = 1
    IdleWhileHeld = FALSE
SPECIFICATION Spec
INVARIANTS
    
    
    
    AnswerIsGenuine
\* The calls are finitely many: once they are served the system is at rest.
CHECK_DEADLOCK FALSE
