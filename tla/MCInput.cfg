SPECIFICATION Spec
CONSTANTS
    d1 = d1
    d2 = d2
    k1 = k1
    k2 = k2
    a1 = a1
    a2 = a2
    w1 = w1
    w2 = w2
    SharedOwner = TRUE
    Keys = {k1, k2}
    Business = {k2}
    Answers = {a1, a2}
    Dispatchers = {d1, d2}
    Owner <- OwnerOf
    Nobody = Nobody
    CanCancel = {TRUE}
    Legacy = FALSE
    Controls = {}
    Deadline = FALSE
    MaxControls = 0
    MaxCancels = 1
    MaxAttempts = 2
    MaxRevision = 2
    MaxFaults = 1
SYMMETRY LaneSymmetry
CHECK_DEADLOCK FALSE
INVARIANTS
    TypeOK
    ResponseFollowsCommand
    AnsweredOnce
    CallsAreSerial
