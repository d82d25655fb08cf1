SPECIFICATION DeliverySpec
CONSTANTS
    PlayerIds = {p1}
    RHIName = "D3D12"
    MaxTextures = 3
    MaxTasks = 1
INVARIANTS PumpedForSessions NoGaps
PROPERTIES PumpSpec EncodesCurrent NeverGoesBack HandlersReturn ShutdownEnds
CHECK_DEADLOCK FALSE
