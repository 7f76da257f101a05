SPECIFICATION Spec
CONSTANTS
    Instances = {p, q}
    Limit = 2
    MaxHooks = 1
    MaxEvents = 5
SYMMETRY Symmetric
INVARIANTS
    ZaxTypeOK
    RequestSafe
    TableTrue
    DriverReplaced
    ListTrue
CHECK_DEADLOCK FALSE
