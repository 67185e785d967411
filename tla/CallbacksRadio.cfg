\* A radio action that a main loop outside Guile activates
CONSTANTS
    KindOf <- MCRadioKindOf
    Procs = {p1, p2}
    None = None
    LoopKinds = {"watch", "notify", "cell", "action", "handler", "radio"}
    ProgramKeeps = TRUE
    ProgramThrows = {"watch", "notify", "cell", "action", "handler"}
    BadEntries = {"malformed"}
    MaxDepth = 2
SPECIFICATION Spec
SYMMETRY MCSymmetry
INVARIANTS GuileBoundary
