SPECIFICATION FairSpec
CONSTANTS
    MaxWorkers = 2
    Flaky = {1}
    MaxRogue = 0
    MaxRequests = 2
    MaxBlocks = 2
    MaxSpawnFailures = 1
    OptKinds = {"snap", "badSnap"}
    CallerAwaits = TRUE
INVARIANTS RanOnItsSnapshot ReferencesResolve
PROPERTY EveryCallSettles
CHECK_DEADLOCK FALSE
