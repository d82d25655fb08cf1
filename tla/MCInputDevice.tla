--------------------------- MODULE MCInputDevice ---------------------------
(* Instances of InputDevice for TLC. *)
EXTENDS InputDevice

\* The tilde by either of its codes, and a key without a name.
ThreeKeys == {192, 223, 91}

\* The left button, and one that GetMouseClick does not know.
TwoMouseButtons == {0, 5}

\* A button, and a trigger, which is an axis to the application.
BottomAndTrigger == {0, 6}
TriggerAxes == {6, 7}

TwoFingers == {1, 2}

\* A point in the middle, and the last one.
MiddleAndLast == {<<32768, 32768>>, <<65535, 65535>>}

FullHD == <<1920, 1080>>
=============================================================================
