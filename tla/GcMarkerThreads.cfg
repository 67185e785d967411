\* Two threads that protect the same two objects.  A thread can be stopped
\* between lock and unlock; the collection then never ends, see
\* GcMarkerStopped.cfg.
CONSTANTS
    Objects = {o1, o2}
    Threads = {t1, t2}
    Nobody = Nobody
    MaxCount = 3
SPECIFICATION TableSpec
INVARIANTS ProtectedSurvives NoLostUpdate
CHECK_DEADLOCK FALSE
