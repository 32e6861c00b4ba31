SPECIFICATION LoopSpec
CONSTANTS
    s1 = s1
    s2 = s2
    w1 = w1
    w2 = w2
    None = None
    Sup <- Sups2
    Role <- Roles
    Core <- CoreRoles
    Switchable = {w2}
    MaxWorkers = 1
    Env = {"kill", "signal", "flag", "restart", "sweep", "memory", "crash"}
CONSTRAINT Bounds
INVARIANTS
    LifecycleTypeOK
    OneSupervisor
    OneServerPerRole
    NoOrphans
    PoolCap
    StoppedStaysStopped
PROPERTY
    RoleComesBack
CHECK_DEADLOCK FALSE
