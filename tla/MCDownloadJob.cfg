SPECIFICATION Spec
CONSTANTS
    MaxRedirects = 1
    RequestLength = 2
    MaxUnits = 2
    Timeout = 2
    StepTicks = 1
    MaxGap = 1
    Word = 6
INVARIANTS
    TypeOK
    CallsInOrder
    NothingLeft
PROPERTIES
    EndsAsItWas
    OkIsWhole
    Terminates
    TransferSpec
