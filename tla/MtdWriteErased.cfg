SPECIFICATION Spec
CONSTANTS
    Size = 4
    MaxDev = 2
    MaxData = 2
    MaxMark = 2
    MaxConf = 2
    MaxBad = 2
    MaxWorn = 1
INVARIANTS
    ErasedBeforeWritten
CHECK_DEADLOCK FALSE
