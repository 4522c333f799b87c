SPECIFICATION MutatingSpec
CONSTANTS
    Objects = {"a", "b"}
    Heaps <- MCHeaps
    Replacers = {"none", "fn", "list"}
    Spaces = {"plain"}
    KeyList <- MCKeyList
    NR_DEPTH_LIMIT = 2
    RSF_COPY_GAS = 4
    ReentryRule = TRUE
    MaxLevels = 2
    MaxHooks = 1
INVARIANT NativeWalksWhatWasMeasured
CHECK_DEADLOCK FALSE
