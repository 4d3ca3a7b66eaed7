CONSTANTS
    Lags <- MCLags
    Noise <- MCNoise
    HourLen = 4
    HoursPerDay = 3
    MinDiffs = 2
    HighConf = 3
    MinSpan = 2
    ShrinkK = 1
    TolMin = 0
    TolMax = 1
    Jump = 60
    Backdate = 2
    Retain = 20
    MaxTime = 25
    MaxChanges = 2
    MaxMisses = 1
    MaxRestarts = 1
    MaxGap = 2
CHECK_DEADLOCK FALSE
SPECIFICATION HSpec
INVARIANTS
    PairsAreNearest
    BaselineBeforeFault
    SightKept
PROPERTY AlarmStays
