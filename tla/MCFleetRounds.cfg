CONSTANTS
    Host = {h1, h2}
    Resource = {}
    Interval = 2
    Timeout = 1
    LostAfter = 3
    Parallel = 2
    MaxEvents = 3
    Lag = 0
    MaxTime = 8
SPECIFICATION Spec
INVARIANTS
    TypeOK
    LostMarkExact
    RoundsAreSeparate
    HealthHonest
PROPERTIES
    Progress
