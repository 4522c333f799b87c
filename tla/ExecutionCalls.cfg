SPECIFICATION Spec
CONSTANTS
    Activations <- CallEpochs
    Contexts <- AnyRun
    ContractErrors <- NoForgery
    PlainActions = {"SEND"}
    ALLOWED_ACTIONS = {"SEND", "EXECUTE", "XCALL", "ATTEST"}
    ComputeUnits = {1}
    CallLimits = {1, 2, 3}
    GasCeiling = 8
    Requests = {0}
    UsedBound = 10
    HostReadGas = {2}
    LintGas = 1
    ReadGas = 1
    WriteGas = 2
    DeleteGas = 1
    EmissionGas = 1
    AttestGas = 2
    XcallGas = 2
    MinCallGas = 2
    MinXcallGas = 1
    MaxXcallGas = 2
    MaxEmissions = 2
    MaxLogs = 1
    Names = {"a"}
    Overlong = {}
    NulNames = {}
    KeyTypes = {"string", "object"}
    Values = {"v"}
    Unstorable = {"bad"}
    MaxStateKeys = 1
    KeyRules = {TRUE, FALSE}
    MaxObjects = 1
INVARIANT FundedByCaller
INVARIANT PaidMeansQueued
INVARIANT AllOrNothing
