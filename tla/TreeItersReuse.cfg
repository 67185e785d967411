CONSTANTS
    Iters = {i1, i2, i3}
    Vals = {v1, v2, v3}
    None = None
    Env = {"reuse"}
    MaxRows = 2
    MaxThrows = 1
SPECIFICATION Spec
INVARIANT NeverAborts
CHECK_DEADLOCK FALSE
