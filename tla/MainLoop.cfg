\* Two loops of one context, nested up to three deep, and two SIGINTs.
CONSTANTS
    main = main
    nested = nested
    default = default
    other = other
    Loops = {main, nested}
    Contexts = {default}
    Default = default
    ContextOf <- OneContext
    MaxDepth = 3
    MaxInterrupts = 2
SPECIFICATION FairSpec
INVARIANTS NothingLeftBehind HandlerInstalled NoDoubleReport
PROPERTIES InterruptStopsLoop
