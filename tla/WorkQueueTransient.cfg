SPECIFICATION Spec
CONSTANTS
    None = None
    a1 = a1  a2 = a2  w1 = w1  w2 = w2  k1 = k1  k2 = k2
    Clients = {a1}
    Workers = {w1, w2}
    Keys = {k1, k2}
    Sends <- OneHandler
    ForbiddenSets <- NothingForbidden
    BatchSize = 2
    MaxReceive = 3
    Faults = {"transient"}
    Coverage = {TRUE}
CHECK_DEADLOCK FALSE
INVARIANT DeletedMeansSettled
