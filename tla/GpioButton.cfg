SPECIFICATION Spec
CONSTANTS
    Hz = 3
    LongPress = 2
    Threshold = 1
    MaxQueue = 3
INVARIANTS
    ResetUncut
PROPERTIES
    SeenTellsHold
CHECK_DEADLOCK FALSE
