SPECIFICATION Spec
CONSTANTS
    Services <- MCServices
    Ops = "ops"
    Reads <- MCReads
    Owner <- MCOwner
    Tenant = "chat"
    Scopes <- MCScopes
    Fresh = {"conf", "secret"}
    Mishaps = {"fail", "kill", "die"}
    MaxEdits = 2
    MaxMishaps = 1
INVARIANTS UpToDate SwitchKept
 
