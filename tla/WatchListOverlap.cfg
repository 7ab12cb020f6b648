SPECIFICATION Spec
CONSTANTS
    Symbols <- OneSymbol
    Batches = {b1, b2}
    MaxSaves = 2
    MaxObservers = 2
    MaxQueue = 2
    MaxRows = 2
    MaxRemovals = 1
    ScreenRows = 1
CHECK_DEADLOCK FALSE
SYMMETRY BatchSymmetry
INVARIANTS
    TypeOK
    GroupBalanced
    QuietRowsMatch
    RefreshRuns
    SymbolListFresh
