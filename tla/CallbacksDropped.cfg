\* A program that keeps nothing for the wrapper: a watch's procedure is freed
\* while its source is there.
CONSTANTS
    KindOf <- MCKindOf
    Procs = {p1, p2}
    None = None
    LoopKinds = {"watch", "notify", "cell", "action", "handler"}
    ProgramKeeps = FALSE
    ProgramThrows = {"watch", "notify", "cell", "action", "handler"}
    BadEntries = {"malformed"}
    MaxDepth = 2
SPECIFICATION Spec
SYMMETRY MCSymmetry
INVARIANTS CallsLive
