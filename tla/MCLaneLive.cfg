SPECIFICATION FairSpec
CONSTANTS
    d1 = d1
    d2 = d2
    k1 = k1
    k2 = k2
    a1 = a1
    a2 = a2
    w1 = w1
    w2 = w2
    SharedOwner = FALSE
    Keys = {k1}
    Business = {}
    Answers = {a1}
    Dispatchers = {d1}
    Owner <- OwnerOf
    Nobody = Nobody
    CanCancel = {TRUE}
    Legacy = FALSE
    Controls = {"PAUSE"}
    Deadline = TRUE
    MaxControls = 1
    MaxCancels = 1
    MaxAttempts = 2
    MaxRevision = 1
    MaxFaults = 1
CHECK_DEADLOCK FALSE
PROPERTIES
    StopIsDelivered
    CommandsResolve
