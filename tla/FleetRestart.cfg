SPECIFICATION FairSpec
CONSTANTS
    s1 = s1
    s2 = s2
    w1 = w1
    w2 = w2
    None = None
    Sup <- Sups1
    Role <- Roles
    Core <- CoreRoles
    Switchable = {}
    MaxWorkers = 1
    Env = {"flag"}
PROPERTY
    RestartComesBack
CHECK_DEADLOCK FALSE
