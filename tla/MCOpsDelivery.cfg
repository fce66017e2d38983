SPECIFICATION FairSpec
CONSTANTS
    p1 = p1
    p2 = p2
    e1 = e1
    e2 = e2
    Records = {e1, e2}
    Publishers = {p1, p2}
    Nobody = Nobody
    Limit = 2
    MaxAttempts = 2
    MaxFaults = 3
CHECK_DEADLOCK FALSE
INVARIANTS
    TypeOK
PROPERTIES
    TellsAtLeastOnce
    RecordsSettle
