SPECIFICATION Spec
CONSTANTS
    Proc = {p1, p2}
    Name <- MCName
    Sdram <- MCSdram
    Value <- MCValue
    Default = "v"
    Bucket <- MCBucket
    Buckets = 2
    Size <- MCSize
    Area = 20
    Factory <- MCFactory
    Command <- MCCommand
SYMMETRY Symmetry
INVARIANTS
    TypeOK
    
PROPERTIES
    AnswersTell
    FailuresTell
    
    
CHECK_DEADLOCK FALSE
