\* A durable run claims nothing.
SPECIFICATION Spec
CONSTANTS
    i1 = i1  i2 = i2  r1 = r1  r2 = r2  x = x  y = y  d1 = d1
    Runs = {r1, r2}
    Durables = {d1}
    Items = {i1, i2}
    Accounts = {x}
    Merged = Merged
    None = None
    MaxChosen = 2
    MaxErrors = 1
    MaxFaults = 1
    MaxResets = 1
INVARIANT DurableClaims
SYMMETRY Alike
CHECK_DEADLOCK FALSE
