\* Two requests in flight, a quorum of two, one revision, one task.
SPECIFICATION Spec
CONSTANTS
    a1 = a1  a2 = a2  q1 = q1  q2 = q2  x = x  y = y  t1 = t1
    None = None
    Requests = {q1, q2}
    Platforms = {x}
    Actors = {a1, a2}
    Tasks = {t1}
    MaxRevisions = 1
    Quorum = 2
    HumanApproval = FALSE
    MaxDecisions = 3
    MaxOverlaps = 1
    MaxErrors = 1
INVARIANTS RepeatsNeedOverlap QuorumIsReal ItemNotStranded
PROPERTY VetoHolds
SYMMETRY Alike
CHECK_DEADLOCK FALSE
