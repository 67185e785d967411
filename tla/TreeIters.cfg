CONSTANTS
    Iters = {i1, i2, i3}
    Vals = {v1, v2, v3}
    None = None
    Env = {}
    MaxRows = 2
    MaxThrows = 1
SPECIFICATION Spec
INVARIANT IterValid NeverAborts ProtectionsOwned
CHECK_DEADLOCK FALSE
