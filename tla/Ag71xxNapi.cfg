SPECIFICATION FairSpec
CONSTANTS
    Size = 4
    Limit = 2
    AllocFails = TRUE
    StopDesc = StopDesc
INVARIANTS
    EngineHasBuffer
    RingInStep
    InterruptKept
    JobsLeaveOrder
PROPERTIES
    JobEnds
    SlotComesBack
CHECK_DEADLOCK FALSE
