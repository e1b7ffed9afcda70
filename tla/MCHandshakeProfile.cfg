SPECIFICATION Spec
CONSTANTS
    Slots = {a, b}
    None = None
    Wrap = 8
    Depth = 2
    DetailDepth = 1
    Starts = {7}
    MaxTicks = 2
    MaxCalls = 2
    MaxScopes = 3
    Detailed = {"ecdhe"}
SYMMETRY Symmetry
INVARIANTS
    TypeOK
    ExclusiveTicks
    Partition
    CompleteIsPaired
PROPERTIES
    ClosedIsKept
CHECK_DEADLOCK FALSE
