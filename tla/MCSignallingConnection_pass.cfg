SPECIFICATION Spec
CONSTANTS
    t1 = t1
    t2 = t2
    t3 = t3
    ConnThreads <- ThreeThreads
    Endings <- EndingKinds
    NoThread = NoThread
INVARIANTS SendsOnlyWhenAlive
PROPERTIES PingThreadNotLost Reconnects
CHECK_DEADLOCK FALSE
