\* The in-memory queue under the same consumers.
SPECIFICATION Spec
CONSTANTS
    j1 = j1  j2 = j2  w1 = w1  w2 = w2  w3 = w3  p1 = p1  p2 = p2
    Jobs = {j1, j2}
    Workers = {w1, w2}
    Pools = {p1, p2}
    Clients = {c1}
    Keys = {k1}
    NoKey = NoKey
    NoJob = NoJob
    Priority <- MCPriority
    PoolOf <- TwoPools
    Backend = "memory"
    MaxAttempts = 2
    MaxFaults = 1
INVARIANT AttemptBudget
CHECK_DEADLOCK FALSE
