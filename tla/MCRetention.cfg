SPECIFICATION FairSpec
CONSTANTS
    r1 = r1
    r2 = r2
    Replicas = {r1, r2}
    Publishers = {r1}
    Nobody = Nobody
    Skew <- SkewOf
    MaxSkew = 1
    Ttl = 2
    Grace = 1
    Scoped = FALSE
    Commands = {TRUE}
    MaxFaults = 1
INVARIANTS
    TypeOK
    PurgedIsAnnounced
    RecoveryIsAlone
    RetentionWithinSkew
PROPERTIES
    EventsReachSink
    EndedIsPurged
