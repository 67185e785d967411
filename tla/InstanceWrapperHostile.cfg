\* Everything the surroundings may do, Scheme classes two levels deep.
CONSTANTS
    Instances = {i1, i2}
    Wrappers = {w1, w2}
    Threads = {t1}
    None = None
    Levels = {0, 1, 2}
    Kinds = {"plain", "floating", "toplevel"}
    Env = {"nested", "early", "resurrect", "cfloat"}
    MaxDepth = 2
    MaxCRefs = 1
SPECIFICATION Spec
SYMMETRY Symmetry
\* Leaked instances use up the addresses: the bounded program may come to rest.
CHECK_DEADLOCK FALSE
INVARIANTS
    NoUseAfterFree
    FluidMatchesCalls
