SPECIFICATION Spec
CONSTANTS
    r1 = r1
    r2 = r2
    r3 = r3
    r4 = r4
    None = None
    Run <- Runs3
    Skill = {"a", "b"}
    Env = {}
SYMMETRY Symmetry3
INVARIANT ExclusiveTraining
