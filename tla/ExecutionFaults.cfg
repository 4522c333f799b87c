SPECIFICATION FairSpec
CONSTANTS
    Activations <- AllEpochs
    Contexts <- FreeRun
    ContractErrors <- Forgeries
    PlainActions = {}
    ALLOWED_ACTIONS = {"EXECUTE"}
    ComputeUnits = {1, 3}
    CallLimits = {}
    GasCeiling = 3
    Requests = {0, 2}
    UsedBound = 7
    HostReadGas = {}
    LintGas = 1
    ReadGas = 1
    WriteGas = 2
    DeleteGas = 1
    EmissionGas = 1
    AttestGas = 2
    XcallGas = 2
    MinCallGas = 2
    MinXcallGas = 1
    MaxXcallGas = 2
    MaxEmissions = 0
    MaxLogs = 1
    Names = {"a"}
    Overlong = {}
    NulNames = {}
    KeyTypes = {}
    Values = {"v"}
    Unstorable = {}
    MaxStateKeys = 1
    KeyRules = {TRUE, FALSE}
    MaxObjects = 0
INVARIANT BilledWithinCeiling
INVARIANT ExhaustedNeverCommits
INVARIANT ResourceFaultsBillCeiling
INVARIANT StatusCorroborated
INVARIANT HostFaultsHalt
PROPERTY RunEnds
