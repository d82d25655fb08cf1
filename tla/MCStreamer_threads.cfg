SPECIFICATION FairSpec
CONSTANTS
    PlayerIds <- OnePlayer
    SFU_PLAYER_ID = 1
    INVALID_PLAYER_ID = Nobody
    AppCalls <- FreezeAndUnfreeze
    BrowserActs <- OneActs
    MaxTasks = 3
INVARIANTS HandlerSessionAlive StreamingWhileConnected
PROPERTIES HandlersFinish ResetDeletes
