SPECIFICATION FairSpec
CONSTANTS
    q1 = q1
    q2 = q2
    a = a
    b = b
    Home = a
    Replicas = {a, b}
    Requests = {q1, q2}
    Kinds <- Pairs
    NoRequest = NoRequest
    MaxFaults = 2
INVARIANTS
    TypeOK
PROPERTIES
    FiresOnceOrNever
    WithheldSettles
