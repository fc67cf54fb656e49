SPECIFICATION Spec
CONSTANTS
    Skb = {p1, p2, p3, p4}
    NoSkb = NoSkb
    StopDesc = StopDesc
    Soc = "ar724x"
    Size = 4
    MaxSeg = 2
    AllocFails = TRUE
SYMMETRY Symmetry
INVARIANTS
    TypeOK
    NoUseAfterFree
    NoEarlyAttempt
    NoPacketLost
    CountsMatchRing
    EngineOnTheWay
    QueueHasRoom
PROPERTIES
    FifoSpec
CHECK_DEADLOCK FALSE
