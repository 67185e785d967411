\* The program takes rows that are shown out of the list: set-filter does not
\* find the old rows behind the first of them.
CONSTANTS
    Rows = {a, b, c}
    MaxLength = 3
    ProgramKeepsRows = FALSE
    MaxDepth = 1
SPECIFICATION ListSpec
INVARIANTS ViewMatches
