SPECIFICATION Spec
CONSTANTS
    w1 = w1
    w2 = w2
    Workers = {w1, w2}
    NoWorker = NoWorker
    NotBefore = 0
    LatestStart = 1
    Deadline = 2
    Horizon = 2
    MaxRev = 2
    MaxStopAttempts = 2
    MaxCancelSeq = 1
    MaxFaults = 1
    Modes = {"scheduled", "immediate", "late"}
    Activities = {"start", "uncertain", "confirm", "cancel", "recheck", "read", "recover"}
    SupportsCancel = TRUE
SYMMETRY WorkerSymmetry
CHECK_DEADLOCK FALSE
INVARIANTS
    TypeOK
    NoSecondSideEffect
    StopHasCommand
    CompletionClosesCommand
    OutcomeIsProven
    RevisionIsReal
PROPERTIES
    RowNeverRegresses
