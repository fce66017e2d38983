SPECIFICATION FairSpec
CONSTANTS
    c1 = c1
    c2 = c2
    r1 = r1
    Callers = {c1, c2}
    Recoverers = {r1}
    NoProc = NoProc
    Calls = {"scheduled", "required", "capable"}
    Refuses = {"capable"}
    MaxFaults = 2
INVARIANTS
    TypeOK
    SameAnswer
    ExecutionIsTracked
PROPERTIES
    PublishedIsFinal
    ExecutionGetsTask
