SPECIFICATION FairSpec
CONSTANTS
    Writes = {1, 2}
    Others = {3}
    Budgets <- MCBudgets
CHECK_DEADLOCK FALSE
INVARIANTS
    TypeOK
    ConnectionConsistent
    NewestWins
PROPERTIES
    ConfirmedStaysShown
    KeepsPromise
    EveryWriteAnswered
