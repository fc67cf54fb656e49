SPECIFICATION Spec
CONSTANTS
    Dev = {d1, d2}
    NoDev = NoDev
    IfName = {eth0, eth1}
    NoName = NoName
    LedName = {eth0, eth1}
    Links = {d1, d2}
    Modes = {{"link"}, {"act"}}
    MaxLeak = 1
    Loaded = FALSE
INVARIANTS
    
    LedTellsLink
CHECK_DEADLOCK FALSE
