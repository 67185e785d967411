\* An instance is returned between collection and finalization.
CONSTANTS
    Instances = {i1, i2}
    Wrappers = {w1, w2}
    Threads = {t1}
    None = None
    Levels = {0, 1}
    Kinds = {"plain", "floating", "toplevel"}
    Env = {"resurrect"}
    MaxDepth = 2
    MaxCRefs = 1
SPECIFICATION Spec
PROPERTY HeldStaysBound
