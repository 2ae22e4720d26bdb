\* Two racing enqueuers over two rows.
SPECIFICATION Spec
CONSTANTS
    j1 = j1  j2 = j2  w1 = w1  w2 = w2  w3 = w3  p1 = p1  p2 = p2
    Jobs = {j1, j2}
    Workers = {w1}
    Pools = {p1, p2}
    Clients = {c1, c2}
    Keys = {k1}
    NoKey = NoKey
    NoJob = NoJob
    Priority <- MCPriority
    PoolOf <- TwoPools
    Backend = "postgres"
    MaxAttempts = 1
    MaxFaults = 1
INVARIANT KeyUnique
CHECK_DEADLOCK FALSE
