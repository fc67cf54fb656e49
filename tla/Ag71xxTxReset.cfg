SPECIFICATION Spec
CONSTANTS
    Skb = {p1, p2, p3}
    NoSkb = NoSkb
    StopDesc = StopDesc
    Soc = "ar724x"
    Size = 4
    MaxSeg = 2
    AllocFails = FALSE
SYMMETRY Symmetry
INVARIANTS
    EngineStoppedInReset
CHECK_DEADLOCK FALSE
