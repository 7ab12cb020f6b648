SPECIFICATION FairSpec
CONSTANTS
    Keys = {1, 2}
    MaxLevel = 2
    MaxMemCompactLevel = 1
    MemCapacity = 1
    CompactionTrigger = 1
    StopWritesTrigger = 2
    Budgets <- MCBudgets
    None = None
CHECK_DEADLOCK FALSE
INVARIANTS
    TypeOK
    ReadsLatest
    Durable
    LevelsSorted
PROPERTIES
    EveryWriteReturns
