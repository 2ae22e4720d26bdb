\* With automatic publishing every post of a run carries the last item's text.
SPECIFICATION Spec
CONSTANTS
    i1 = i1  i2 = i2  r1 = r1  r2 = r2  x = x  y = y  d1 = d1
    Runs = {r1}
    Durables = {}
    Items = {i1, i2}
    Accounts = {x}
    Merged = Merged
    None = None
    MaxChosen = 2
    MaxErrors = 0
    MaxFaults = 0
    MaxResets = 0
INVARIANT OwnText
SYMMETRY Alike
CHECK_DEADLOCK FALSE
