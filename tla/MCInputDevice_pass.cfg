SPECIFICATION Spec
CONSTANTS
    KeyCodes <- ThreeKeys
    MouseButtons <- TwoMouseButtons
    GamepadButtons <- BottomAndTrigger
    GamepadAxes <- TriggerAxes
    Fingers <- TwoFingers
    Positions <- MiddleAndLast
    SizeXY <- FullHD
    MaxMessages = 3
INVARIANTS NothingStuck
CHECK_DEADLOCK FALSE
