SPECIFICATION FairSpec
CONSTANTS
    Setups <- MCSetups
    MaxFailures = 3
    MaxProcesses = 15
CHECK_DEADLOCK FALSE
INVARIANTS NoOrphans RendersOnSameAdapter
PROPERTIES AllComeUp
