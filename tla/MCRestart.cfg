CONSTANTS
    chat = chat
    render = render
    train = train
    huge = huge
    llm = llm
    embed = embed
    Jobs <- MCFewJobs
    Residents <- MCResidents
    Recovery = Recovery
    Total = 4
    Vram <- MCFewVram
    Est <- MCFewEst
    DefaultTtl = 1
    MaxTtl = 1
    HeartbeatTtl = 1
    Renders <- MCOneRender
SPECIFICATION Spec
INVARIANTS
    
    OneRequestPerId
    ResidentInOnePlace
    NoOvercommit
