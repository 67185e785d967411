\* Two objects protected up to three times.
CONSTANTS
    Objects = {o1, o2}
    Threads = {t1}
    Nobody = Nobody
    MaxCount = 3
SPECIFICATION FairTableSpec
INVARIANTS TableTypeOK
PROPERTIES CollectionEnds
