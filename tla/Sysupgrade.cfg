SPECIFICATION UpgradeFairSpec
CONSTANTS
    Size = 4
    MaxDev = 2
    MaxData = 2
    MaxMark = 2
    MaxConf = 2
    MaxBad = 2
    MaxWorn = 1
    Caller = {c1, c2}
    MaxEdit = 1
INVARIANTS
    UpgradeTypeOK
    LaidInOrder
    ExitTells
    RestUntouched
    UpgradeArrives
PROPERTIES
    EveryRunEnds
CHECK_DEADLOCK FALSE
