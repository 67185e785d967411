\* A listener calls set-filter in the middle of another call.
CONSTANTS
    Rows = {a, b}
    MaxLength = 2
    ProgramKeepsRows = TRUE
    MaxDepth = 2
SPECIFICATION ListSpec
INVARIANTS ViewMatches
