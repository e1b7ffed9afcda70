CONSTANTS
    None = None
    v1 = v1
    v2 = v2
    Versions = {v1, v2}
    Length <- ShortLengths
    Names = {None}
    RecordSize = 2
    CommitInterval = 3
    MaxAppend = 2
    MaxGeneration = 3
    Cards = {TRUE, FALSE}
    ErrorPages <- NoPage
    Faults = {"ShortWrite"}
    ResetDuring <- Growing
SPECIFICATION FollowedSpec
INVARIANTS TypeOK AlwaysOpens LossBounded
PROPERTIES DeleteLeavesNothing FileSpec
