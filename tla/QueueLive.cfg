SPECIFICATION FairSpec
CONSTANTS
    w1 = w1
    w2 = w2
    None = None
    Task = {1, 2, 3}
    Worker <- Workers2
    Deps <- NoDeps
    Cond <- NoEdges
    PinnedTo <- NoPins
    Gated = {}
    Chain = {1, 2}
    Affine <- NoAffinity
    BatchDepth = 3
    MaxRetries = 1
    MaxCommands = 1
    Crashable = {w2}
    Env = {"fail", "cancel"}
CHECK_DEADLOCK FALSE
INVARIANT
    NoStrandedRow
PROPERTY
    EveryTaskResolves
