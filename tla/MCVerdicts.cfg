SPECIFICATION MCSpec
CONSTANTS
    HugeMax = 1000000
    BreadthCritical = 2
    MaxItems = 5
    Hold = 60
    FreshFor = 120
    NoMachine = NoMachine
    Unasked = Unasked
INVARIANTS
    NothingLost
    CauseFirst
    EveryProblemShown
    PinnedIsSeen
