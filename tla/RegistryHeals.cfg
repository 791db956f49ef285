CONSTANTS
    w1 = w1
    h1 = h1
    h2 = h2
    h3 = h3
    NoWorker = NoWorker
    NoRecord = NoRecord
    Workers <- OneWorker
    Handlers <- ThreeHandlers
    MaxFaults = 1
SPECIFICATION FairSpec
INVARIANTS
    TypeOK
PROPERTIES
    RegisteredAtKept
    HeartbeatHeals
    GhostsGo
