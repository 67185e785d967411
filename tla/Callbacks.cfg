\* The program keeps what the wrappers do not protect, and its procedures throw
\* where scm_with_guile stops them: elsewhere C has no defined outcome.
CONSTANTS
    KindOf <- MCKindOf
    Procs = {p1, p2}
    None = None
    LoopKinds = {"watch", "notify", "cell", "action", "handler"}
    ProgramKeeps = TRUE
    ProgramThrows = {"watch", "notify", "cell", "action", "handler"}
    BadEntries = {"malformed", "no procedure"}
    MaxDepth = 2
SPECIFICATION Spec
SYMMETRY MCSymmetry
INVARIANTS CallsLive ProtectedExactly
