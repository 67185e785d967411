\* A nested loop with a context of its own.
CONSTANTS
    main = main
    nested = nested
    default = default
    other = other
    Loops = {main, nested}
    Contexts = {default, other}
    Default = default
    ContextOf <- TwoContexts
    MaxDepth = 2
    MaxInterrupts = 1
SPECIFICATION FairSpec
PROPERTIES InterruptStopsLoop
