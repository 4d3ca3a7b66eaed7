CONSTANTS
    Value = {0, 2}
    Dir = 1
    Floor = 2
    Sec = 2
    Step = 2
    MaxRaw = 3
    MaxCoarse = 3
    RawSlack = 1
    CoarseSlack = 0
    MinCap = 1
    Retention = 4
    Gap <- Steps
    MaxTime = 20
    MaxSamples = 6
    MaxLives = 2
CHECK_DEADLOCK FALSE
SPECIFICATION HSpec
INVARIANTS
    TiersAgree
    LookupIsNearest
    BucketsExact
    WorstIsTrue
