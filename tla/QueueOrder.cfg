SPECIFICATION Spec
CONSTANTS
    w1 = w1
    w2 = w2
    None = None
    Task = {1, 2}
    Worker = {w1}
    Deps <- ChainDeps
    Cond <- NoEdges
    PinnedTo <- NoPins
    Gated = {}
    Chain = {1, 2}
    Affine <- NoAffinity
    BatchDepth = 3
    MaxRetries = 1
    MaxCommands = 1
    Crashable = {}
    Env = {"fail", "retry"}
CHECK_DEADLOCK FALSE
INVARIANT
    MustCompleteFirst
