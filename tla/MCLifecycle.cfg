CONSTANTS
    side = side
    vpn = vpn
    owner = owner
    Owner = owner
    MemberList <- OneMember
    Resident = resident
    ComfyUI = comfyui
    Callers = {c1, c2}
    Asked = {owner, side}
    Limit = 2
    Window = 2
    MaxMishaps = 2
SPECIFICATION Spec
INVARIANTS
    NetworkKept
    NoSecondTenant
    
PROPERTIES
    TenantLeftAlone
    MembersReturn
