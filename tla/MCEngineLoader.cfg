\* Two engines, two slots, two loads and every failure.
CONSTANTS
    SegmentCount = 4
    SlotCount = 2
    MaxCreated = 2
    KeySlots = 4
    k1 = k1
    k2 = k2
    k3 = k3
    ShortKeys = {k1, k2}
    LongKeys = {k3}
    Protocols = {"tls12", "tls13"}
    Sizes <- SmallSizes
    Images <- SmallImages
    Tables <- SmallTables
    LinkLimit = 4
SPECIFICATION Spec
INVARIANTS
    Accounted
    RelocationsExact
    NativeKeysAreCurrent
    NativeIsQualified
