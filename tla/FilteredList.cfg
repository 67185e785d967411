\* Lists of up to four of three rows, some of them twice
CONSTANTS
    Rows = {a, b, c}
    MaxLength = 4
    ProgramKeepsRows = TRUE
    MaxDepth = 1
SPECIFICATION FairListSpec
INVARIANTS ViewMatches SignalsFit
PROPERTIES SetFilterEnds
