SPECIFICATION FairSpec
CONSTANTS
    None = None
    a1 = a1  a2 = a2  w1 = w1  w2 = w2  k1 = k1  k2 = k2
    Clients = {a1, a2}
    Workers = {w1, w2}
    Keys = {k1, k2}
    Sends <- FirstIsRetried
    ForbiddenSets <- SecondKeyForbidden
    BatchSize = 2
    MaxReceive = 2
    Faults = {"publish", "transient", "crash"}
    Coverage = {TRUE, FALSE}
CHECK_DEADLOCK FALSE
INVARIANTS TypeOK MessagesHaveRows TenantWorkIsSerialized EvaluationsMatch
PROPERTIES ImplementsRequests QueueDrains
