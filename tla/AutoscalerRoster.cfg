CONSTANTS
    u1 = u1
    u2 = u2
    u3 = u3
    u4 = u4
    q1 = q1
    NoClient = NoClient
    Scaler = Scaler
    Urls <- FourUrls
    Configured <- ConfiguredOne
    MaxBuilt = 6
    Requests <- OneSlot
    Oversized <- OneSlot
    Probers <- ScalerOnly
    Threshold = 1
    MaxGlitches = 0
    Strategy = "round_robin"
    Cycle = 60
    Standby <- StandbyOverlaps
    MinWorkers = 1
    MaxWorkers = 3
    UpThreshold = 3
    DownThreshold = 0
    Depths <- EmptyOrDeep
    Backlog = 3
    LocalUrl <- Ports
SPECIFICATION ScalerSpec
INVARIANTS
    ScalerTypeOK
    ConfiguredStay
    RosterAgrees
    StandbyKept
    WithinMax
    
