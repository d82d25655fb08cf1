SPECIFICATION Spec
CONSTANTS
    PlayerIds <- ThreePlayers
    SFU_PLAYER_ID = 1
    INVALID_PLAYER_ID = Nobody
    AppCalls <- NoCalls
    BrowserActs <- TwoOfThreeAct
    MaxTasks = 1
INVARIANTS ControllerIsLive OnlyControllerTold
PROPERTIES QualityControlSpec
