CONSTANTS
    a = a
    b = b
    Edits = {a, b}
    Secrets <- Nothing
    Reverts = {a}
    Clashes <- Nothing
    MaxMain = 3
    MaxPrs = 0
    PeopleAt <- Never
    Kinds = {"turn", "worker"}
    DrainAfter = 2
    Mishaps = {"unknown", "killed", "lease", "operator", "fails"}
    Counted = {"unknown", "killed", "lease", "operator", "fails"}
    MaxMishaps = 2
SPECIFICATION Spec
PROPERTIES
    DeployNotStarved
    
CHECK_DEADLOCK FALSE
