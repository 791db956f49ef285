CONSTANTS
    u1 = u1
    u2 = u2
    q1 = q1
    q2 = q2
    loop = loop
    route = route
    NoClient = NoClient
    Scaler = Scaler
    Urls <- OneUrl
    Configured <- ConfiguredOne
    MaxBuilt = 2
    Requests <- TwoSlots
    Oversized <- NoSlots
    Probers <- LoopAndRoute
    Threshold = 2
    MaxGlitches = 1
    Strategy = "least_latency"
    Cycle = 2
SPECIFICATION FairSpec
INVARIANTS
    TypeOK
    WorkersHaveBreakers
    ClosedBelowThreshold
    ActiveIsInFlight
PROPERTIES
    HalfOpenFailureReopens
    
    
