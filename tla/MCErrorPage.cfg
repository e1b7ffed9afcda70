CONSTANTS
    None = None
    v1 = v1
    v2 = v2
    Versions = {v1, v2}
    Length <- Lengths
    Names = {None}
    RecordSize = 2
    CommitInterval = 4
    MaxAppend = 2
    MaxGeneration = 3
    Cards = {FALSE}
    ErrorPages <- SomePage
    Faults = {}
    ResetDuring = {}
SPECIFICATION Spec
INVARIANTS RecoversTruth
