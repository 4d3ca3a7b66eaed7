CONSTANTS
    s1 = s1
    s2 = s2
    Service = {s1}
    Look <- ThreeLooks
    MinSeen = 2
    VanishConfirm = 2
    LearnPeriod = 3
    Retain = 4
    MaxTime = 8
    MaxLives = 2
CHECK_DEADLOCK FALSE
SPECIFICATION HSpec
INVARIANTS
    MapsAgree
    DebounceExact
    AnswersTrue
PROPERTIES
    LastWordsTrue
