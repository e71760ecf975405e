CONSTANTS
    chat = chat
    render = render
    train = train
    huge = huge
    llm = llm
    embed = embed
    MaxBeats = 2
    Jobs <- MCJobs
    Residents <- MCResidents
    Recovery = Recovery
    Total = 4
    Vram <- MCVramJobs
    Est <- MCEst
    DefaultTtl = 2
    MaxTtl = 2
    HeartbeatTtl = 1
    Renders <- MCRenders
SPECIFICATION LiveSpec
INVARIANTS
    ClientLeasesFit
    
PROPERTIES
    FifoAdmission
    ImplementsLeases
    QueueServed
    ResidentsReturn
