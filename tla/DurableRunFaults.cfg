\* A crash or a slow consumer, at any step.
SPECIFICATION Spec
CONSTANTS
    a = a  b = b  e1 = e1  e2 = e2
    None = None
    Executors = {e1, e2}
    Targets <- TwoOfOne
    Accounts <- TwoAccounts
    MaxRevisions = 0
    HumanApproval = FALSE
    MaxAttempts = 2
    MaxErrors = 1
    MaxFaults = 1
INVARIANT DuplicatesNeedFaults
PROPERTY QueueKeepsLeases
SYMMETRY ConsumersAlike
CHECK_DEADLOCK FALSE
