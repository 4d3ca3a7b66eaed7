CONSTANTS
    Key = {k1}
    Checker = {c1}
    Handler = {h1}
    None = none
    MaxCount = 3
    MaxResets = 2
    MaxRestarts = 2
    MaxRequests = 2
CHECK_DEADLOCK FALSE
SPECIFICATION BaselineHSpec
INVARIANTS
    BaselineDurable
PROPERTIES
    GrowthSeen
