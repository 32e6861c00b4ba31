SPECIFICATION SharedSpec
CONSTANTS
    r1 = r1
    r2 = r2
    r3 = r3
    r4 = r4
    None = None
    Run <- Runs4
    Skill = {"a", "b", "c"}
    Env = {"expire", "die"}
    NoExp = NoExp
    Exp = {e1, e2}
    Answerer = {o1, o2}
    ExpEnv = {"hot", "kill", "dbfail"}
    NoRow = NoRow
    f1 = f1
    j1 = j1
    d1 = d1
    d2 = d2
    Fleet = {f1, f2}
    Job = {j1, j2}
    Row = {t1, t2, t3, t4}
    DagThread = {d1, d2}
    Limit = 2
    FedEnv = {"lost", "refused", "dbfail", "die", "putback"}
    accounts = accounts
    customers = customers
    demo = demo
    Module = {accounts, customers, demo}
    Requires <- Requires3
    AlsoRequires <- AlsoRequires3
    Conflicts <- Conflicts3
    FirstFile <- FirstFile3
    Dashboard = {c1, c2}
    Hub = {c1, c2}
    Keep = 1
    MaxRequests = 3
    ModEnv = {"die", "dbfail"}
    Node = {accounts, customers, demo}
    NoQuery = NoQuery
SYMMETRY SharedSymmetry
INVARIANTS
    LockTypeOK
    ExclusiveWhileHeld
    ExpTypeOK
    RowOfLatest
    RecordMatchesRun
    FedTypeOK
    NoJobLost
    OnceUnlessKept
    ModTypeOK
    SearchFindsClosure
    SortOrdersOrRefuses
    ListKeepsComplete
PROPERTIES
    DeployedForGood
    ChangeSound
    RollbackRestores
CHECK_DEADLOCK FALSE
