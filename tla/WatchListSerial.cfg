SPECIFICATION FairSpec
CONSTANTS
    Symbols <- TwoSymbols
    Batches = {b1}
    MaxSaves = 2
    MaxObservers = 2
    MaxQueue = 2
    MaxRows = 2
    MaxRemovals = 1
    ScreenRows = 1
CHECK_DEADLOCK FALSE
INVARIANTS
    NoMoreRowsThanSaves
PROPERTIES
    LoadingEndsOrFails
    SavedIsListedOrFails
