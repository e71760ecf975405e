CONSTANTS
    a = a
    b = b
    Edits = {a, b}
    Secrets = {b}
    Reverts <- Nothing
    Clashes <- Clashing
    MaxMain = 2
    MaxPrs = 1
    PeopleAt <- Anytime
    Kinds <- Nothing
    DrainAfter = 1
    Mishaps = {"unknown", "killed", "down"}
    Counted = {"unknown", "killed", "down"}
    MaxMishaps = 1
SPECIFICATION Spec
INVARIANTS
    
    
    OnlyScannedIsPushed
PROPERTIES
    
    ChangesAreSaved
CHECK_DEADLOCK FALSE
