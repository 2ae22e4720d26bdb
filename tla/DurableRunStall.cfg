\* One redelivery: a stale save resets the revision and the chain stops.
SPECIFICATION FairSpec
CONSTANTS
    a = a  b = b  e1 = e1  e2 = e2
    None = None
    Executors = {e1, e2}
    Targets <- OneDraft
    Accounts <- OneAccount
    MaxRevisions = 1
    HumanApproval = FALSE
    MaxAttempts = 1
    MaxErrors = 0
    MaxFaults = 1
PROPERTY EventuallyDecided
CHECK_DEADLOCK FALSE
