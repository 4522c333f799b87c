SPECIFICATION StoreSpec
CONSTANTS
    Names = {"a", "b", "long", "nul"}
    Overlong = {"long"}
    NulNames = {"nul"}
    KeyTypes = {"string", "number", "object"}
    Values = {"x"}
    Unstorable = {"NaN"}
    MaxStateKeys = 1
    KeyRules = {TRUE, FALSE}
    MaxObjects = 1
PROPERTY ImplementsStore
INVARIANT CountIsExact
INVARIANT ChangesAreTheView
CHECK_DEADLOCK FALSE
