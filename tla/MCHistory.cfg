CONSTANTS
    Series = {cpu, proc}
    Steady = {cpu}
    SlotLen = 2
    DayLen = 2
    Retain = 1
    FirstRound = 4
    MaxFaults = 1
    MaxTime = 8
CHECK_DEADLOCK FALSE
SPECIFICATION Spec
INVARIANTS
    SavedInTime
PROPERTIES
    DiskKeepsItems
    MemoryReachesDisk
