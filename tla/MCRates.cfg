CONSTANTS
    Pid = {1, 2, 3}
    Key = {a, b, c}
    MinUse = 1
    MaxTracked = 2
    Idle = 2
    MaxTime = 6
    MaxEvents = 8
    FewEvents = 4
    MaxMisses = 1
SYMMETRY Names
CHECK_DEADLOCK FALSE
SPECIFICATION MCSpec
PROPERTIES
    RatesTrue
    
