SPECIFICATION KeyDataSpec
CONSTANTS
    Labels = 10
    Visible = 7
    Quotes <- MCQuotes
CHECK_DEADLOCK FALSE
INVARIANTS
    CompleteIsRight
    HomeNeverTraps
    ShownInTurn
