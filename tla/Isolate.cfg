SPECIFICATION IsolateSpec
CONSTANTS
    Objects = {"a", "b"}
    Heaps <- MCHeaps
    Replacers = {"none", "fn", "list"}
    Spaces = {"plain", "object"}
    KeyList <- MCKeyList
    NR_DEPTH_LIMIT = 2
    RSF_COPY_GAS = 4
    ReentryRule = TRUE
    MaxLevels = 2
    MaxHooks = 1
    PARSE_LIMIT = 2
    MaxNesting = 3
    MaxParses = 2
    Lengths = {0, 1, 2}
    MAX_SAFE = 9
    MaxSparse = 3
    MaxMoves = 3
    Sizes = {0, 1, 3}
    GateSets <- MCGateSets
    Budgets = {7, 40}
    BPE = 2
    GROW_THRESHOLD = 2
    TALLY_BATCH = 2
    MaxCalls = 2
    NR_LIMIT = 4
    Weights = {1}
    ArgCounts = {1}
    CALL_UNITS = 1
    ARGS_PER_UNIT = 1
    BOUND_ARGS_MAX = 1
    Sites = {1, 2}
    MaxByHand = 2
    MaxCopies = 1
    Networks = {"main", "test"}
    Chains = {"BTC", "DOGE"}
    Txs = {"t"}
    Vouts = {3}
    Contracts = {7}
    Positions = {0, 1, 10}
    MAX_CALL_DEPTH = 2
    MaxTreeEmissions = 2
    MaxRoots = 2
    MaxQueued = 4
    Vms = {"a", "b", "c"}
    Caps = {0, 1, 2}
    DEFAULT_MAX_LIVE_EXECUTORS = 3
    Blocks <- MCBlocks
    Versions <- MCVersions
    RealmBlocks <- MCRealmBlocks
    MaxContractSteps = 1
    CpuLimits = {0, 10000, 60000}
INVARIANT NativeInputMeasured
INVARIANT NativeWorkCharged
INVARIANT StackAccounted
INVARIANT DiscountIsDue
INVARIANT EnvironmentFixed
INVARIANT IdsNameOneEmission
INVARIANT SlotsExact
CHECK_DEADLOCK FALSE
