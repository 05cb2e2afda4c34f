SPECIFICATION FairSpec
CONSTANTS
    None = None
    a1 = a1  a2 = a2  w1 = w1  c1 = c1  c2 = c2  c3 = c3  d1 = d1  d2 = d2  m1 = m1  m2 = m2
    ApiThreads = {a1, a2}
    WorkerThreads = {w1}
    ApiPool = {c1, c2, c3}
    WorkerPool = {d1, d2}
    Tenants = {m1, m2}
    Loads <- TwoRequestsOrBothProcesses
    MaxBlocks = 3
INVARIANTS TypeOK TenantContextIsOwn GuardsExclude
PROPERTY CallsEnd
