\* Two consumers, three drafts for two platforms, errors and retries but no faults.
SPECIFICATION FairSpec
CONSTANTS
    a = a  b = b  e1 = e1  e2 = e2
    None = None
    Executors = {e1, e2}
    Targets <- ThreeDrafts
    Accounts <- TwoAccounts
    MaxRevisions = 2
    HumanApproval = FALSE
    MaxAttempts = 2
    MaxErrors = 2
    MaxFaults = 0
INVARIANTS TypeOK OnePhaseAtATime PublishedIsApproved SuccessMeansPosted RestIsDecided
PROPERTY EventuallyDecided
CHECK_DEADLOCK FALSE
