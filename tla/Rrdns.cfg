SPECIFICATION FairSpec
CONSTANTS
    Addr = {a1, a2, a3}
    Bad = Bad
    Id = {i1, i2, i3}
    MaxLen = 4
    MaxLimit = 2
    Faults = TRUE
INVARIANTS
    PipelineKept
    ReplyIsRight
    NothingAfterFree
PROPERTIES
    CallIsReplied
CHECK_DEADLOCK FALSE
