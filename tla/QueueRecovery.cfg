SPECIFICATION Spec
CONSTANTS
    w1 = w1
    w2 = w2
    None = None
    Task = {1, 2}
    Worker <- Workers2
    Deps <- ChainDeps
    Cond <- NoEdges
    PinnedTo <- NoPins
    Gated = {}
    Chain = {1, 2}
    Affine <- NoAffinity
    BatchDepth = 0
    MaxRetries = 1
    MaxCommands = 1
    Crashable <- Workers2
    Env = {"fail", "respawn", "killfail", "retry", "boot"}
SYMMETRY Symmetry
INVARIANT
    UniqueExecutor
