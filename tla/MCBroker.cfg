SPECIFICATION BrokerSpec
CONSTANTS
    chat = chat
    voice = voice
    small = small
    large = large
    huge = huge
    Recovery = Recovery
    Jobs <- MCJobs
    Residents <- MCResidents
    Vram <- MCVram
    Est <- MCEst
    Renders <- MCRenders
    Total = 3
    DefaultTtl = 1
    MaxTtl = 1
    HeartbeatTtl = 1
    Api = {a1, a2}
    Loop = Loop
    Verb = Verb
    Nobody = Nobody
    Mishaps = {"raise", "silent", "write", "file", "crash", "stray", "render", "unread",
               "history"}
    MaxMishaps = 1
    MaxCalls = 2
SYMMETRY Workers
INVARIANTS
    DecisionsCurrent
    
    EvictedIsStopped
