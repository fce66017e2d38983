SPECIFICATION FairSpec
CONSTANTS
    w1 = w1
    w2 = w2
    Workers = {w1}
    NoWorker = NoWorker
    NotBefore = 0
    LatestStart = 1
    Deadline = 2
    Horizon = 2
    MaxRev = 2
    MaxStopAttempts = 1
    MaxCancelSeq = 1
    MaxFaults = 1
    Modes = {"scheduled"}
    Activities = {"start", "uncertain", "cancel", "recheck", "recover"}
    SupportsCancel = FALSE
CHECK_DEADLOCK FALSE
PROPERTIES
    StartResolves
    DeadlineStopResolves
