CONSTANTS
    u1 = u1
    u2 = u2
    u3 = u3
    u4 = u4
    q1 = q1
    NoClient = NoClient
    Scaler = Scaler
    Urls <- TwoUrls
    Configured <- ConfiguredOne
    MaxBuilt = 3
    Requests <- OneSlot
    Oversized <- NoSlots
    Probers <- ScalerOnly
    Threshold = 2
    MaxGlitches = 1
    Strategy = "round_robin"
    Cycle = 6
    Standby <- StandbyOne
    MinWorkers = 1
    MaxWorkers = 2
    UpThreshold = 3
    DownThreshold = 0
    Depths <- EmptyList
    Backlog = 3
    LocalUrl <- Ports
SPECIFICATION ScalerFairSpec
PROPERTIES
    DeepQueueAddsWorkers
