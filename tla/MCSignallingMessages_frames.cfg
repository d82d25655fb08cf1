SPECIFICATION MessagesSpec
CONSTANTS
    N <- Five
    End <- UnequalFrames
    PlayerIds <- ThreePlayers
    Sent <- SomeMessages
    WordSize = 8
    BitsPerByte = 3
    Lengths <- BoundaryLengths
    MaskKeys <- SomeKeys
    bTransmitUEAudio = TRUE
    bReceiveBrowserAudio = TRUE
INVARIANTS NothingHeldBack FramesUnderstood SessionsAsTold
PROPERTIES LiveSessionsStay
CHECK_DEADLOCK FALSE
