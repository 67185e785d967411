SPECIFICATION Spec
CONSTANTS
    Pieces <- MCCut
    MaxPieces = 4
    MaxDepth = 2
INVARIANTS
    FormsInOrder
