SPECIFICATION InputFairSpec
CONSTANTS
    Exclusive = FALSE
    Capacity = 2
    s1 = s1
    s2 = s2
    Sessions <- TwoSessions
    MaxEvents = 4
PROPERTIES NeverOlder KeepsUp
CHECK_DEADLOCK FALSE
