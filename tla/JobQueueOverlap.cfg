\* One job, three consumers in two processes, two faults: every overlap, and every job settles.
SPECIFICATION FairSpec
CONSTANTS
    j1 = j1  j2 = j2  w1 = w1  w2 = w2  w3 = w3  p1 = p1  p2 = p2
    Jobs = {j1}
    Workers = {w1, w2, w3}
    Pools = {p1, p2}
    Clients = {c1}
    Keys = {k1}
    NoKey = NoKey
    NoJob = NoJob
    Priority <- MCPriority
    PoolOf <- TwoPools
    Backend = "postgres"
    MaxAttempts = 2
    MaxFaults = 2
INVARIANTS TypeOK AttemptFence OverlapOnlyAfterSweep AttemptBudget
PROPERTIES SettledStays ImplementsLeases EventuallySettled
CHECK_DEADLOCK FALSE
