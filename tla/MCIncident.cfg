CONSTANTS
    p = p
    q = q
    nil = nil
    h1 = h1
    h2 = h2
    Chain <- FewChains
    NoChain = nil
    SlugOrder <- Slugs
    Handler = {h1}
    IncidentKeep = 2
    SigCool = 5
    MinGap = 3
    Hour = 6
    MaxPerHour = 3
    Offsets <- ThreeOffsets
    MaxDuration = 4
    GoneRounds = 2
    MaxOpen = 2
    ManualAt = {3}
    MaxTime = 7
    MaxFaults = 1
CHECK_DEADLOCK FALSE
SPECIFICATION HSpec
INVARIANTS
    LimitsExact
    TimelineExact
    SessionEnds
    EvidenceKept
