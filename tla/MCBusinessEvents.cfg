SPECIFICATION Spec
CONSTANTS
    r1 = r1
    r2 = r2
    durable = durable
    live = live
    Sources = {durable}
    Durable = {durable}
    Replicas = {r1, r2}
    MaxSeq = 2
    MaxFaults = 1
CHECK_DEADLOCK FALSE
INVARIANTS TypeOK PublishedInOrder NothingLostInSilence
