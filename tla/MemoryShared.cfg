CONSTANTS
    m1 = m1
    m2 = m2
    m3 = m3
    c1 = c1
    c2 = c2
    NoMemory = NoMemory
    NoRow = NoRow
    Forever = Forever
    Memories <- ThreeMemories
    Working <- TwoWorking
    Ttl <- OneExpires
    Cost <- Costs
    Importance <- Importances
    Relevance <- Relevances
    Scale = 2
    Budgets <- OneOrTwoFit
    Callers <- TwoCallers
    MaxTime = 1
    MaxCount <- Reads
SPECIFICATION Spec
SYMMETRY Symmetry
INVARIANTS
    TypeOK
    NothingVanishes
    EveryGetCounted
    RetrievalFits
    NoBetterPassedOver
PROPERTIES
    AccessesNeverGoBack
\* Every memory may be recorded and deleted, and the clock stops at its bound.
CHECK_DEADLOCK FALSE
