CONSTANTS
    None = None
    v1 = v1
    v2 = v2
    Versions = {v1, v2}
    Length <- ShortLengths
    Names = {None}
    RecordSize = 2
    CommitInterval = 2
    MaxAppend = 2
    MaxGeneration = 4
    Cards = {TRUE, FALSE}
    ErrorPages <- NoPage
    Faults = {"ShortWrite", "NoRecord"}
    ResetDuring <- Anywhere
SPECIFICATION Spec
INVARIANTS RecoversTruth
