SPECIFICATION FairSpec
CONSTANTS
    Dev = {d1, d2}
    NoDev = NoDev
    IfName = {eth0, eth1}
    NoName = NoName
    LedName = {eth0}
    Links = {d1}
    Modes = {}
    MaxLeak = 1
    Loaded = TRUE
INVARIANTS
    TypeOK
    RefsCounted
    RelayUsesHeld
PROPERTIES
    UnregisterEnds
CHECK_DEADLOCK FALSE
