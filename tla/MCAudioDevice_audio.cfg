SPECIFICATION DeviceSpec
CONSTANTS
    Exclusive = FALSE
    Capacity = 2
    HandleCount = 2
    MaxBuffers = 3
    MaxRestarts = 1
    SamplesPer10Ms = 2
    WebRTCDisableTransmitAudio = FALSE
    WebRTCDisableReceiveAudio = FALSE
INVARIANTS CallbackStays SoundInOrder
PROPERTIES NeverGoesBack CatchesUp
CHECK_DEADLOCK FALSE
