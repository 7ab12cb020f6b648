SPECIFICATION HomeFairSpec
CONSTANTS
    Calls = {tech, health, industrial}
    Size = 2
CHECK_DEADLOCK FALSE
INVARIANTS
    NeverTraps
    ReloadedShowsAll
PROPERTIES
    KeepsPromise
    EveryCallCompletes
    SectorShownOrFails
