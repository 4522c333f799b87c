SPECIFICATION Spec
CONSTANTS
    MaxWorkers = 3
    Flaky = {1, 2}
    MaxRogue = 0
    MaxRequests = 2
    MaxBlocks = 0
    MaxSpawnFailures = 2
    OptKinds = {"plain"}
    CallerAwaits = FALSE
INVARIANT WaitingIsTracked
PROPERTY ImplementsService
CHECK_DEADLOCK FALSE
