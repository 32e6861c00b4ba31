SPECIFICATION Spec
CONSTANTS
    w1 = w1
    w2 = w2
    None = None
    Task = {1, 2, 3, 4}
    Worker <- Workers2
    Deps <- JoinDeps
    Cond <- JoinCond
    PinnedTo <- JoinPins
    Gated = {}
    Chain = {1, 2}
    Affine <- JoinAffinity
    BatchDepth = 1
    MaxRetries = 1
    MaxCommands = 2
    Crashable <- Workers2
    Env = {"fail", "overload", "respawn", "daglost", "boot", "cancel", "unqueue"}
INVARIANT
    TypeOK
PROPERTIES
    ImplementsDispatch
    StrandedOnlyBy
