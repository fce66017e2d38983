SPECIFICATION FairSpec
CONSTANTS
    e1 = e1
    e2 = e2
    j1 = j1
    j2 = j2
    NoSlot = NoSlot
    Slots = {e1, e2}
    JobIds = {j1, j2}
    MaxFaults = 1
    MaxCommands = 1
CHECK_DEADLOCK FALSE
INVARIANTS TypeOK ActiveWasPublished
PROPERTIES SettledByOwner StopEnds
