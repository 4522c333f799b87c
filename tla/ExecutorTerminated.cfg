SPECIFICATION Spec
CONSTANTS
    MaxWorkers = 2
    Flaky = {1}
    MaxRogue = 0
    MaxRequests = 1
    MaxBlocks = 0
    MaxSpawnFailures = 1
    OptKinds = {"plain"}
    CallerAwaits = TRUE
INVARIANT TerminatedOnlyIfRan
CHECK_DEADLOCK FALSE
