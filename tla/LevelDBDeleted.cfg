SPECIFICATION Spec
CONSTANTS
    Keys = {1, 2}
    MaxLevel = 1
    MaxMemCompactLevel = 0
    MemCapacity = 1
    CompactionTrigger = 1
    StopWritesTrigger = 1
    Budgets <- MCSplitBudgets
    None = None
CHECK_DEADLOCK FALSE
INVARIANTS
    DeletedStaysDeleted
