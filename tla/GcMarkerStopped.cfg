\* Two threads: one is stopped while it holds the lock.
CONSTANTS
    Objects = {o1}
    Threads = {t1, t2}
    Nobody = Nobody
    MaxCount = 1
SPECIFICATION FairTableSpec
PROPERTIES CollectionEnds
CHECK_DEADLOCK FALSE
