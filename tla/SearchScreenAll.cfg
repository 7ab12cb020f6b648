SPECIFICATION FairSpec
CONSTANTS
    Terms <- MCTerms
    Blank = Blank
    Hits <- MCHits
    Slots = {s1, s2}
    MaxQueue = 2
    ScreenRows = 1
CHECK_DEADLOCK FALSE
INVARIANTS
    TypeOK
    SettledAgrees
PROPERTIES
    TapOpensShownRow
    TextIsSearched
