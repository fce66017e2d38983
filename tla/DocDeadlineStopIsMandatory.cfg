SPECIFICATION Spec
CONSTANTS
    w1 = w1
    w2 = w2
    Workers = {w1, w2}
    NoWorker = NoWorker
    NotBefore = 0
    LatestStart = 1
    Deadline = 2
    Horizon = 2
    MaxRev = 3
    MaxStopAttempts = 2
    MaxCancelSeq = 1
    MaxFaults = 0
    Modes = {"immediate"}
    Activities = {"cancel", "recheck"}
    SupportsCancel = TRUE
SYMMETRY WorkerSymmetry
CHECK_DEADLOCK FALSE
PROPERTIES
    DeadlineStopIsMandatory
