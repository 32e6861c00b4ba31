SPECIFICATION FairSpec
CONSTANTS
    w1 = w1
    w2 = w2
    None = None
    Task = {1, 2, 3, 4, 5}
    Worker = {w1}
    Deps <- NoDeps
    Cond <- NoEdges
    PinnedTo <- NoPins
    Gated = {}
    Chain = {1, 2}
    Affine <- NoAffinity
    BatchDepth = 3
    MaxRetries = 1
    MaxCommands = 1
    Crashable = {}
    Env = {}
CHECK_DEADLOCK FALSE
PROPERTY
    BatchRestProcessed
