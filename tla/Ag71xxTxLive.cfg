SPECIFICATION FairSpec
CONSTANTS
    Skb = {p1, p2}
    NoSkb = NoSkb
    StopDesc = StopDesc
    Soc = "ar724x"
    Size = 4
    MaxSeg = 2
    AllocFails = FALSE
PROPERTIES
    QueueWakes
    AcceptedIsFreed
CHECK_DEADLOCK FALSE
