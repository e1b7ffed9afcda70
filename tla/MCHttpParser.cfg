CONSTANTS
    Messages <- Anything
    ResumeOffset = 3
    Word = 256
    MaxPiece = 9
    HeaderCapacity = 16
    LineCapacity = 3
    MaxShift = 15
    Rooms = {3, 99}
SPECIFICATION Spec
INVARIANTS TypeOK SplitIndependent DeliversBody FinishedIsWhole ReusableAtMessageEnd
CHECK_DEADLOCK FALSE
