SPECIFICATION Spec
CONSTANTS
    Pieces <- MCPieces
    MaxPieces = 4
    MaxDepth = 2
INVARIANTS
    FormsInOrder
    NothingForgotten
    ReportsOwnStack
