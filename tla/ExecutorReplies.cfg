SPECIFICATION Spec
CONSTANTS
    MaxWorkers = 2
    Flaky = {1}
    MaxRogue = 1
    MaxRequests = 2
    MaxBlocks = 1
    MaxSpawnFailures = 1
    OptKinds = {"snap", "badRest", "snapBadRest"}
    CallerAwaits = FALSE
INVARIANTS RunInOrderOnce ResultsAreGenuine
PROPERTY NoDispatchToDoomed
CHECK_DEADLOCK FALSE
