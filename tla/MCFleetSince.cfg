CONSTANTS
    Host = {h1}
    Resource = {cpu}
    Interval = 2
    Timeout = 1
    LostAfter = 3
    Parallel = 1
    MaxEvents = 4
    Lag = 0
    MaxTime = 8
SPECIFICATION HSpec
INVARIANTS
    PageIsTrue
    EveryChangeReported
