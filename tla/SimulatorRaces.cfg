SPECIFICATION SimSpec
CONSTANTS
    Modes = {"in-process", "subprocess"}
    Authors <- AllAuthors
    Indexes = {0, 1}
    Ops = {"add", "drop"}
    MetaFrom = 1
    StrictFrom = 1
    SimNetworks = {"mainnet", "testnet", "regtest", "other"}
    SimCoins = {"BTC", "DOGE", "none"}
    Clocks = {1786060800, 1789257600, 1792303199, 1799000000}
    PinnedHeights = {1, 157073, 961000}
    PinnedTimes = {1786060799, 1792303200}
    MaxSimSteps = 2
    ReadNetworks = {"mainnet", "testnet"}
    Topics = {"scoped", "oracle", "ledger"}
    Pubkeys = {1, 2}
    Stakes = {0, 1, 2}
    Ticks = {"tick"}
    Pairs = {"pair"}
    RoundNumbers = {0, 1, 2}
    Requests = {"request"}
    Polls = {"poll"}
    CallIds = {"call"}
    Inherited = {"constructor"}
    Callers = {"caller", "other"}
    SimIndexes = {0, 1}
    AddressOf <- MCAddressOf
    MAX_STAKERS_PER_TICK = 1
    MaxWorldSeeds = 3
INVARIANT SerialUnlessOverlapped
INVARIANT VerdictIsTheChains
INVARIANT SimulatesTheChain
INVARIANT SeedsReachTheContract
CHECK_DEADLOCK FALSE
