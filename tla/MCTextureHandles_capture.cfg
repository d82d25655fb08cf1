CONSTANTS
    Slots = 2
    MaxFrames = 3
    MaxCache = 1
    CloseLimit = 2
    MaxQueue = 2
    MaxFd = 3
SPECIFICATION FairSpec
CHECK_DEADLOCK FALSE
INVARIANT TexturesSafe
PROPERTIES SlotsComeBack PollerEnds NeverShowsOlder LastTextureArrives
