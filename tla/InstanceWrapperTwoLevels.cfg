\* A Scheme class below another Scheme class, constructed from Scheme.
CONSTANTS
    Instances = {i1, i2}
    Wrappers = {w1, w2}
    Threads = {t1}
    None = None
    Levels = {2}
    Kinds = {"plain", "floating", "toplevel"}
    Env = {}
    MaxDepth = 2
    MaxCRefs = 1
SPECIFICATION Spec
PROPERTY DestroyReleasesAll
