CONSTANTS
    MaxRounds = 2
    MaxProbes = 1
CHECK_DEADLOCK FALSE
SPECIFICATION HSpec
PROPERTIES
    ResultExact
    RoundsGoOn
