\* Two closures of two procedures, three connections, emissions nested twice;
\* handlers connect, disconnect, emit and dispose.  The behaviour ends when
\* the object is disposed and all closures are released.
CONSTANTS
    Closures = {c1, c2}
    Procs = {p1, p2}
    None = None
    MaxHandlers = 3
    MaxDepth = 2
SPECIFICATION FairSpec
INVARIANTS RefsExact ProtectionExact AppliesProcedure
PROPERTIES ReleasedAfterDispose
