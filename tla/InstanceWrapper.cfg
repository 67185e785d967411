\* One thread, Scheme classes one level deep; wrappers may be resurrected.
CONSTANTS
    Instances = {i1, i2}
    Wrappers = {w1, w2}
    Threads = {t1}
    None = None
    Levels = {0, 1}
    Kinds = {"plain", "floating", "toplevel"}
    Env = {"resurrect"}
    MaxDepth = 2
    MaxCRefs = 1
SPECIFICATION FairSpec
INVARIANTS
    TypeOK
    NoUseAfterFree
    NoLeak
    SameWrapper
    CacheCoherent
    ConstructionKeepsWrapper
PROPERTIES
    RefinesIdentity
    GarbageIsFreed
